---- MODULE Spec2Model ----
(***************************************************************************)
(* Model of the NHC ingestion pipeline (src/pipeline.py) over the storage  *)
(* declared in src/models.py: the run entry point main, process_region,    *)
(* process_wallet_feed and update_storm_data, with the records that        *)
(* get_storm_data (src/nhc_parser.py) hands to them.                       *)
(*                                                                         *)
(* A column value is an option: None is <<>> (SQL NULL / Python None) and  *)
(* Some(v) is <<v>>.  A row is a function from the column names to such    *)
(* values; a record (the Python dict storm_data) is a function from the    *)
(* keys it carries, so that "key not in dict" is "key \notin DOMAIN".      *)
(* The surrogate key Storm.id is the position of the row in the table.     *)
(* The audit timestamps (created_at, updated_at, recorded_at) are left     *)
(* out: no code of the pipeline reads them.                                *)
(***************************************************************************)
EXTENDS Integers, Sequences, FiniteSets, TLC

(* ------------------------------ bounds --------------------------------- *)
\* runs started over a behaviour
MaxRuns == 2
\* storm records (items that carry a storm identifier) read over a behaviour
MaxRecords == 2
\* items of one primary feed, items of one wallet feed
MaxItems == 2
MaxWalletItems == 2

\* characters of a text handed to parse_coordinates or clean_numeric
MaxLen == 5

\* the pipeline processes that may run on the same storage
Proc == {1, 2}

(* ------------------------------ values --------------------------------- *)
None == <<>>
Some(v) == <<v>>

\* Python truthiness of an optional string / integer
TruthyStr(o) == o # None /\ o # Some(<<>>)
TruthyInt(o) == o # None /\ o # Some(0)

Put(f, k, v) == [x \in (DOMAIN f) \cup {k} |-> IF x = k THEN v ELSE f[x]]

\* the day words of the bulletin times the feeds carry, the years the clock
\* passes through
Dates == {"d1", "d2"}
Years == {2025, 2026}

\* columns of storms (src/models.py:95-115) and storm_history (136-154),
\* without the surrogate key and the audit timestamps
Cols ==
  {"region_id", "storm_id", "season", "storm_name", "storm_type", "latitude",
   "longitude", "movement", "wind_speed", "pressure", "headline", "report",
   "report_link", "report_date", "wallet", "wallet_url", "status"}

(* ------------------------- src/nhc_parser.py --------------------------- *)
\* A text (a Python str) is a sequence of characters; the degree sign is
\* written "deg".  The outcome of a call is the value it returns or the
\* exception it raises.
Ret(v) == [exc |-> "none", val |-> v]
Raise(e) == [exc |-> e, val |-> None]

Digits == {"0", "1", "2", "3", "4", "5", "6", "7", "8", "9"}

DigitVal(c) ==
  CASE c = "0" -> 0 [] c = "1" -> 1 [] c = "2" -> 2 [] c = "3" -> 3
    [] c = "4" -> 4 [] c = "5" -> 5 [] c = "6" -> 6 [] c = "7" -> 7
    [] c = "8" -> 8 [] c = "9" -> 9

\* int(s) for a text of digits
RECURSIVE IntOf(_)
IntOf(s) ==
  IF s = <<>> THEN 0
  ELSE 10 * IntOf(SubSeq(s, 1, Len(s) - 1)) + DigitVal(s[Len(s)])

\* c in s, s.replace(c, ""), s.strip(), s.split(c)
Contains(s, c) == \E i \in 1..Len(s) : s[i] = c

Remove(s, c) == SelectSeq(s, LAMBDA x : x # c)

RECURSIVE Strip(_)
Strip(s) ==
  IF s = <<>> THEN s
  ELSE IF s[1] = " " THEN Strip(Tail(s))
  ELSE IF s[Len(s)] = " " THEN Strip(SubSeq(s, 1, Len(s) - 1))
  ELSE s

RECURSIVE Split(_, _)
Split(s, c) ==
  IF ~Contains(s, c) THEN <<s>>
  ELSE LET i == CHOOSE k \in 1..Len(s) :
                  s[k] = c /\ \A j \in 1..(k - 1) : s[j] # c
       IN  <<SubSeq(s, 1, i - 1)>> \o Split(SubSeq(s, i + 1, Len(s)), c)

\* a decimal number n / 10^k without trailing zeros in its fraction
RECURSIVE Decimal(_, _)
Decimal(n, k) ==
  IF k > 0 /\ n % 10 = 0 THEN Decimal(n \div 10, k - 1) ELSE <<n, k>>

\* try: ... except excs: return v, applied to the outcome o of the try block
Catch(o, excs, v) == IF o.exc \in excs THEN Ret(v) ELSE o

\* the sign of a numeric text and the text after its sign
Sign(t) == IF t # <<>> /\ t[1] = "-" THEN -1 ELSE 1
Unsigned(t) == IF t # <<>> /\ t[1] \in {"-", "+"} THEN Tail(t) ELSE t

\* the number of digits after the decimal point of u
Frac(u) ==
  IF Contains(u, ".") THEN Len(u) - (CHOOSE k \in 1..Len(u) : u[k] = ".")
  ELSE 0

\* the number written by the sign, the unsigned text u and its digits ds:
\* digits with at most one decimal point, anything else is a ValueError
FloatOf(sign, u, ds) ==
  IF /\ ds # <<>>
     /\ \A i \in 1..Len(ds) : ds[i] \in Digits
     /\ Len(u) - Len(ds) <= 1
    THEN Ret(Decimal(sign * IntOf(ds), Frac(u)))
    ELSE Raise("ValueError")

\* float(s): surrounding blanks are skipped, then an optional sign and the
\* number
float(s) ==
  LET t == Strip(s)
  IN  FloatOf(Sign(t), Unsigned(t), Remove(Unsigned(t), "."))

\* lines 20-26, the try block: lat, lon = map(float, ...) of n parts
UnpackLatLon(n, lat, lon) ==
  IF n # 2 THEN Raise("ValueError")
  ELSE IF lat.exc # "none" THEN lat
  ELSE IF lon.exc # "none" THEN lon
  ELSE Ret(<<Some(lat.val), Some(lon.val)>>)

\* the parts of line 22, each stripped and without its degree signs
LatLonOf(parts) ==
  UnpackLatLon(Len(parts), float(Remove(Strip(parts[1]), "deg")),
               float(Remove(Strip(parts[2]), "deg")))

\* parse_coordinates 15-29
parse_coordinates(coord_str) ==
  IF coord_str = <<>> \/ ~Contains(coord_str, ",")
    THEN Ret(<<None, None>>)
    ELSE Catch(LatLonOf(Split(coord_str, ",")),
               {"ValueError", "AttributeError"}, <<None, None>>)

clean_numeric_leading(value) ==
  IF value = <<>> \/ value[1] \notin Digits THEN 0
  ELSE IntOf(SubSeq(value, 1,
                    CHOOSE n \in 1..Len(value) :
                      /\ \A i \in 1..n : value[i] \in Digits
                      /\ n < Len(value) => value[n + 1] \notin Digits))

\* clean_numeric 31-44; int() of a text of digits raises nothing here
clean_numeric(value) ==
  IF value = <<>> THEN 0
  ELSE LET numbers == SelectSeq(value, LAMBDA c : c \in Digits)
       IN  IF numbers # <<>> THEN IntOf(numbers) ELSE 0

\* Bulletin times.  A datetime is a year, a day and its tzinfo (None for a
\* naive one, else the offset from UTC).  The days "d1" and "d2" lie within
\* the year, "Jan1" is a time in its first hours and "Dec31" one in its last
\* hours, nearer to the turn of the year than the offsets are long.
Days == Dates \cup {"Jan1", "Dec31"}
Offsets == {-1, 0, 1}

\* dt + k hours for an offset k
Shift(dt, k) ==
  IF k > 0 /\ dt.day = "Dec31" THEN [dt EXCEPT !.year = @ + 1, !.day = "Jan1"]
  ELSE IF k < 0 /\ dt.day = "Jan1"
    THEN [dt EXCEPT !.year = @ - 1, !.day = "Dec31"]
  ELSE dt

\* A reading of the clock is the UTC time and the offset of the host's
\* local time: datetime.utcnow() and datetime.now()
utcnow(now) == now.utc
LocalNow(now) == Shift(now.utc, now.host)

\* The words of a bulletin time: a day, a year, a zone.  A zone word is UTC,
\* a numeric offset, or a name such as EDT, which the parser is given no
\* table for and ignores (or takes for the host's own zone).
YearWords == {"1900", "2025", "2026"}
ZoneWords == {"UTC", "-0500", "+0500", "EDT"}

YearOfWord(w) ==
  CASE w = "1900" -> 1900 [] w = "2025" -> 2025 [] w = "2026" -> 2026

TzinfoOfWord(w) ==
  CASE w = "UTC" -> Some(0) [] w = "-0500" -> Some(-1)
    [] w = "+0500" -> Some(1) [] OTHER -> None

\* the datetime built from the words found; what the text does not say is
\* taken from default
BuildDatetime(days, years, zones, default) ==
  IF \/ Len(days) > 1 \/ Len(years) > 1 \/ Len(zones) > 1
     \/ Len(days) + Len(years) + Len(zones) = 0
    THEN Raise("ValueError")
    ELSE Ret([year |-> IF years # <<>> THEN YearOfWord(years[1])
                       ELSE default.year,
              day |-> IF days # <<>> THEN days[1] ELSE default.day,
              tzinfo |-> IF zones # <<>> THEN TzinfoOfWord(zones[1]) ELSE None])

\* date_parser.parse(timestr, fuzzy=True), line 51: words it does not know
\* are skipped, a text without a date is a ParserError (a ValueError), the
\* word "overflow" stands for a number too large for a C integer
\* (OverflowError); default is today in local time
date_parser_parse(timestr, default) ==
  IF Contains(timestr, "overflow") THEN Raise("OverflowError")
  ELSE BuildDatetime(SelectSeq(timestr, LAMBDA w : w \in Days),
                     SelectSeq(timestr, LAMBDA w : w \in YearWords),
                     SelectSeq(timestr, LAMBDA w : w \in ZoneWords),
                     default)

\* lines 55-57: the year 1900 is replaced by the current UTC year
ReplaceYear1900(dt, now) ==
  IF dt.year = 1900 THEN [dt EXCEPT !.year = utcnow(now).year] ELSE dt

\* lines 60-61: astimezone(pytz.UTC), which takes a naive datetime for the
\* host's local time, then replace(tzinfo=None)
ToNaiveUtc(dt, host) ==
  [Shift(dt, -(IF dt.tzinfo = None THEN host ELSE dt.tzinfo[1]))
     EXCEPT !.tzinfo = None]

\* lines 51-62 after the parse
Normalized(parsed, now) ==
  IF parsed.exc # "none" THEN parsed
  ELSE Ret(ToNaiveUtc(ReplaceYear1900(parsed.val, now), now.host))

\* lines 51-62, the try block
DateOf(dt_str, now) ==
  Normalized(date_parser_parse(dt_str, LocalNow(now)), now)

\* parse_datetime 46-68
parse_datetime(dt_str, now) ==
  Catch(DateOf(dt_str, now), {"ValueError", "AttributeError"}, utcnow(now))

LowerChar(c) ==
  CASE c = "A" -> "a" [] c = "L" -> "l" [] c = "T" -> "t" [] c = "E" -> "e"
    [] c = "P" -> "p" [] c = "C" -> "c" [] OTHER -> c

\* w.lower()
Lower(w) == [i \in 1..Len(w) |-> LowerChar(w[i])]

WalletUrlKeepsCase(w) == <<"https://www.nhc.noaa.gov/nhc_">> \o w \o <<".xml">>

\* line 130; the fixed parts of the template are one element each
WalletUrl(w) == <<"https://www.nhc.noaa.gov/nhc_">> \o Lower(w) \o <<".xml">>

\* the child tags get_storm_data reads from the Cyclone element
Tags == {"atcf", "name", "type", "wallet", "movement", "headline", "center",
         "pressure", "wind", "datetime"}

get_element_text_bare_only(parent, tag_name) ==
  IF parent.bare[tag_name] # None THEN Strip(parent.bare[tag_name][1]) ELSE <<>>

\* get_element_text 89-95.  An element is given by what the two lookups
\* find in it for each tag: ns[t] is parent.find("nhc:" + t, NHC_NAMESPACE),
\* bare[t] is parent.find(t), each the text of the element found or None.
get_element_text(parent, tag_name) ==
  LET element == IF parent.ns[tag_name] # None THEN parent.ns[tag_name]
                 ELSE parent.bare[tag_name]
  IN  IF element # None THEN Strip(element[1]) ELSE <<>>

\* getattr(item.find(tag), "text", "").strip() of lines 125-126
ItemText(found) == IF found # None THEN Strip(found[1]) ELSE <<>>

\* lines 129-130: the wallet feed URL when the record has a wallet
WithWalletUrl(storm_data, wallet) ==
  IF wallet # <<>>
    THEN Put(storm_data, "wallet_url", Some(WalletUrl(wallet)))
    ELSE storm_data

\* lines 98-130: the record of the Cyclone element c, or the exception one
\* of the conversions raised
StormData(c, item, wallet, center, report_date) ==
  IF center.exc # "none" THEN center
  ELSE IF report_date.exc # "none" THEN report_date
  ELSE Ret(Some(WithWalletUrl(
    [storm_id    |-> Some(get_element_text(c, "atcf")),
     storm_name  |-> Some(get_element_text(c, "name")),
     storm_type  |-> Some(get_element_text(c, "type")),
     wallet      |-> Some(wallet),
     movement    |-> Some(get_element_text(c, "movement")),
     headline    |-> Some(get_element_text(c, "headline")),
     latitude    |-> center.val[1],
     longitude   |-> center.val[2],
     pressure    |-> Some(clean_numeric(get_element_text(c, "pressure"))),
     wind_speed  |-> Some(clean_numeric(get_element_text(c, "wind"))),
     report_date |-> Some(report_date.val),
     report      |-> Some(ItemText(item.description)),
     report_link |-> Some(ItemText(item.link))],
    wallet)))

\* lines 98-130 on the Cyclone element c
CycloneData(c, item, now) ==
  StormData(c, item, get_element_text(c, "wallet"),
            parse_coordinates(get_element_text(c, "center")),
            parse_datetime(get_element_text(c, "datetime"), now))

\* the element of lines 80-84
FindCyclone(item) ==
  IF item.cyclone_ns # None THEN item.cyclone_ns ELSE item.cyclone

\* get_storm_data 70-132.  An item is given by what item.find finds in it:
\* cyclone_ns for "nhc:Cyclone", cyclone for "Cyclone" (an element or None),
\* description and link (a text or None).
get_storm_data(item, now) ==
  IF FindCyclone(item) = None THEN Ret(None)
  ELSE CycloneData(FindCyclone(item)[1], item, now)

RequestExceptions == {"ConnectionError", "Timeout", "HTTPError"}
Exceptions ==
  RequestExceptions \cup {"Exception", "ValueError", "AttributeError",
                          "OverflowError"}

\* What the server and the XML parser do on one fetch: requests.get raises
\* (transport), or a response arrives whose status is a success ("2xx"), a
\* redirection requests does not follow ("3xx": 304, or no Location
\* header), or an error ("4xx", "5xx"), and BeautifulSoup parses the body
\* or raises.
Responses ==
  [transport : {"ok", "ConnectionError", "Timeout"},
   status : {"2xx", "3xx", "4xx", "5xx"},
   body : {"parses", "fails"}]

\* fetch_rss_feed 134-162: raise_for_status raises HTTPError for an error
\* status only; both except clauses return None
fetch_rss_feed(response) ==
  LET raised == IF response.transport # "ok" THEN response.transport
                ELSE IF response.status \in {"4xx", "5xx"} THEN "HTTPError"
                ELSE IF response.body = "fails" THEN "Exception"
                ELSE "none"
  IN  IF raised = "none" THEN Ret(Some("soup"))
      ELSE IF raised \in RequestExceptions THEN Ret(None)
      ELSE IF raised \in Exceptions THEN Ret(None)
      ELSE Raise(raised)

(* ------------------------------ inputs --------------------------------- *)
AL01 == <<"A", "L", "0", "1">>
AL02 == <<"A", "L", "0", "2">>
AT1 == <<"A", "T", "1">>

StormIds == {AL01, AL02}
Wallets == {<<>>, AT1}
Payloads == {1, 2}

\* the readings of the clock: a time of the year 2025 in UTC, on a host in
\* any of the zones
Clock ==
  [utc : [year : {2025}, day : Days, tzinfo : {None}], host : Offsets]

\* the reading under which the bulletin times of the feeds are parsed
FeedClock == {[utc |-> [year |-> 2025, day |-> "d1", tzinfo |-> None],
              host |-> 0]}

\* The texts of one bulletin, by the tag they stand under: bundle 1 is a
\* short bulletin without centre, pressure, headline and link, bundle 2 a
\* longer one.
Payload(p) ==
  IF p = 1
    THEN [name |-> Some(<<"A", "l">>), type |-> Some(<<"T", "S">>),
          movement |-> Some(<<"N", "W">>), headline |-> None,
          center |-> None, pressure |-> None, wind |-> Some(<<"4", "5">>),
          description |-> Some(<<"A", "d", "v">>), link |-> None]
    ELSE [name |-> Some(<<"A", "L">>), type |-> Some(<<"H", "U">>),
          movement |-> Some(<<"N">>), headline |-> Some(<<"u", "p">>),
          center |-> Some(<<"2", "2", ".", "0", ",", " ", "-", "7", "2", ".",
                            "5", "deg">>),
          pressure |-> Some(<<"9", "9", "8", " ", "m", "b">>),
          wind |-> Some(<<"5", "0", " ", "m", "p", "h">>),
          description |-> Some(<<"A", "d", "v", " ", "2">>),
          link |-> Some(<<"u", "r", "l">>)]

\* An item of a feed as the NHC serves it: the Cyclone element and its
\* children are found by the bare tag (the lookup with NHC_NAMESPACE as
\* second argument finds nothing); atcf, wallet and datetime are texts or
\* None for a missing child.
CycloneItem(atcf, wallet, datetime, p) ==
  [cyclone_ns |-> None,
   cyclone |-> Some([ns |-> [t \in Tags |-> None],
                     bare |-> [t \in Tags |->
                                 CASE t = "atcf" -> atcf
                                   [] t = "wallet" -> wallet
                                   [] t = "datetime" -> datetime
                                   [] OTHER -> Payload(p)[t]]]),
   description |-> Payload(p)["description"],
   link |-> Payload(p)["link"]]

\* an item without a Cyclone element
PlainItem ==
  [cyclone_ns |-> None, cyclone |-> None,
   description |-> Some(<<"A", "d", "v">>), link |-> None]

\* The items the feeds of the pipeline hold: one without a storm element,
\* one whose bulletin time makes the date parser raise an error that
\* parse_datetime does not catch, one without an atcf child, and the storm
\* bulletins.
Items ==
  {PlainItem,
   CycloneItem(Some(AL01), None, Some(<<"overflow">>), 1),
   CycloneItem(None, None, Some(<<"d1">>), 1)}
  \cup
  {CycloneItem(Some(a), (IF w = <<>> THEN None ELSE Some(w)), Some(<<d>>), p) :
     a \in StormIds, w \in Wallets, d \in Dates, p \in Payloads}

\* get_storm_data(item) for every item of the feeds
Extracted == [it \in Items, now \in FeedClock |-> get_storm_data(it, now)]

\* Items for get_storm_data alone.  For each group of child tags a mode
\* says which lookups find the child; the namespaced and the bare lookup
\* find different texts, some padded with blanks.
Modes == {"absent", "bare", "ns", "both"}
TagGroups == {"atcf", "wallet", "center", "datetime", "rest"}
TagGroup(t) == IF t \in TagGroups THEN t ELSE "rest"

NsText(t) ==
  CASE t = "atcf" -> <<" ">> \o AL01
    [] t = "wallet" -> AT1
    [] t = "center" -> <<"1", ".", "5", ",", "-", "2", "deg">>
    [] t = "datetime" -> <<"d1">>
    [] t = "pressure" -> <<"9", "8">>
    [] t = "wind" -> <<"4", "5", " ", "k", "t">>
    [] OTHER -> <<"n", " ">>

BareText(t) ==
  CASE t = "atcf" -> AL02
    [] t = "wallet" -> <<"a", "t", "1", " ">>
    [] t = "center" -> <<"x">>
    [] t = "datetime" -> <<"overflow">>
    [] t = "pressure" -> <<"1", " ", "m", "b">>
    [] t = "wind" -> <<>>
    [] OTHER -> <<"b">>

XmlElement(m) ==
  [ns |-> [t \in Tags |-> IF m[TagGroup(t)] \in {"ns", "both"}
                            THEN Some(NsText(t)) ELSE None],
   bare |-> [t \in Tags |-> IF m[TagGroup(t)] \in {"bare", "both"}
                              THEN Some(BareText(t)) ELSE None]]

XmlItems ==
  [cyclone_ns : {None, Some(XmlElement([g \in TagGroups |-> "ns"]))},
   cyclone : {None} \cup {Some(XmlElement(m)) : m \in [TagGroups -> Modes]},
   description : {None, Some(<<" ", "A", "d", "v">>)},
   link : {None, Some(<<"u", "r", "l">>)}]

\* texts for clean_numeric: every text of at most MaxLen of these characters
NumChars == {"0", "4", "5", " ", "M", "-"}
NumTexts == UNION {[1..n -> NumChars] : n \in 0..MaxLen}

\* texts for parse_datetime: none, words the date parser does not know, a
\* number it overflows on, and a day with or without a year and a zone
DateTexts ==
  {<<>>, <<"x">>, <<"overflow">>, <<"x", "d1", "x">>}
  \cup {<<d>> \o y \o z : d \in Days,
                          y \in {<<>>} \cup {<<w>> : w \in YearWords},
                          z \in {<<>>} \cup {<<w>> : w \in ZoneWords}}

\* coordinate texts: every text of at most MaxLen of these characters
CoordChars == {"1", "2", "-", ".", ",", " ", "deg", "x"}
CoordTexts == UNION {[1..n -> CoordChars] : n \in 0..MaxLen}

(* --------------------------- src/models.py ----------------------------- *)
\* Storm(**data): the keys given, the column defaults for season and status
StormRow(data, yr) ==
  [c \in Cols |->
     IF c \in DOMAIN data THEN data[c]
     ELSE CASE c = "season" -> Some(yr)
            [] c = "status" -> Some("active")
            [] OTHER -> None]

\* StormHistory(**data): the keys given, NULL elsewhere
StormHistoryRow(data) ==
  [c \in Cols |-> IF c \in DOMAIN data THEN data[c] ELSE None]

\* db.query(Storm).filter(Storm.storm_id == storm_id).first(): 0 is None
FindStorm(tbl, sid) ==
  LET hits == {i \in 1..Len(tbl) : tbl[i]["storm_id"] = Some(sid)}
  IN  IF hits = {} THEN 0 ELSE CHOOSE i \in hits : \A j \in hits : i <= j

UniqueOff(tbl, pend) == TRUE

\* unique=True on Storm.storm_id: an INSERT of a stored identifier fails
UniqueOk(tbl, pend) ==
  pend.kind = "insert" =>
    \A i \in 1..Len(tbl) : tbl[i]["storm_id"] # pend.vals["storm_id"]

BackfillRegionAll(tbl, rid) ==
  [i \in 1..Len(tbl) |-> [tbl[i] EXCEPT !["region_id"] = Some(rid)]]

\* update_existing_storms_region 216, 220: the rows whose region_id is NULL
\* take the given region id
BackfillRegion(tbl, rid) ==
  [i \in 1..Len(tbl) |->
     IF tbl[i]["region_id"] = None
       THEN [tbl[i] EXCEPT !["region_id"] = Some(rid)]
       ELSE tbl[i]]

(* -------------------------- src/pipeline.py ---------------------------- *)
NoPending == [kind |-> "none", pk |-> 0, vals |-> <<>>, hist |-> <<>>,
              sd |-> <<>>, region_id |-> 0]

\* update_storm_data 83-90: season defaults to the current UTC year, the
\* status is set to active
DefaultedRecord(sd0, yr) ==
  LET sd1 == IF "season" \notin DOMAIN sd0 \/ ~TruthyInt(sd0["season"])
               THEN Put(sd0, "season", Some(yr)) ELSE sd0
  IN  Put(sd1, "status", Some("active"))

NeedsHistoryAnyField(loaded, sd) ==
  \E k \in DOMAIN sd : loaded[k] # sd[k]

\* update_storm_data 97-99: create_history for a stored storm
NeedsHistory(loaded, sd) ==
  /\ "report_date" \in DOMAIN sd
  /\ loaded["report_date"] # sd["report_date"]

\* update_storm_data 121: the history row is built from the record
HistoryOf(sd, region_id) ==
  StormHistoryRow(Put(sd, "region_id", Some(region_id)))

StageUpdateOnlyOnNewReport(tbl, pk, sd, sd0, region_id) ==
  LET loaded == tbl[pk]
      obj == [c \in Cols |->
                IF c = "region_id" THEN Some(region_id)
                ELSE IF c \in DOMAIN sd /\ NeedsHistory(loaded, sd)
                       THEN sd[c] ELSE loaded[c]]
      changed == {c \in Cols : obj[c] # loaded[c]}
  IN  [kind |-> "update", pk |-> pk,
       vals |-> [c \in changed |-> obj[c]],
       hist |-> IF NeedsHistory(loaded, sd)
                  THEN <<HistoryOf(sd, region_id)>> ELSE <<>>,
       sd |-> sd0, region_id |-> region_id]

\* update_storm_data 93-106 and 115-123: the stored row takes every key of
\* the record and the region id; the UPDATE the session will flush carries
\* the attributes whose value differs from the loaded one
StageUpdate(tbl, pk, sd, sd0, region_id) ==
  LET loaded == tbl[pk]
      obj == [c \in Cols |->
                IF c = "region_id" THEN Some(region_id)
                ELSE IF c \in DOMAIN sd THEN sd[c] ELSE loaded[c]]
      changed == {c \in Cols : obj[c] # loaded[c]}
  IN  [kind |-> "update", pk |-> pk,
       vals |-> [c \in changed |-> obj[c]],
       hist |-> IF NeedsHistory(loaded, sd)
                  THEN <<HistoryOf(sd, region_id)>> ELSE <<>>,
       sd |-> sd0, region_id |-> region_id]

StageInsertNoHistory(sd, sd0, region_id, yr) ==
  [kind |-> "insert", pk |-> 0,
   vals |-> StormRow(Put(sd, "region_id", Some(region_id)), yr),
   hist |-> <<>>,
   sd |-> sd0, region_id |-> region_id]

\* update_storm_data 107-123: a new Storm and, always, its history row
StageInsert(sd, sd0, region_id, yr) ==
  [kind |-> "insert", pk |-> 0,
   vals |-> StormRow(Put(sd, "region_id", Some(region_id)), yr),
   hist |-> <<HistoryOf(Put(sd, "region_id", Some(region_id)), region_id)>>,
   sd |-> sd0, region_id |-> region_id]

\* update_storm_data 79-123, for a record with a storm_id: what the session
\* holds when db.commit() is reached
StageReconcile(tbl, sd0, region_id, yr) ==
  LET sd == DefaultedRecord(sd0, yr)
      pk == FindStorm(tbl, sd["storm_id"][1])
  IN  IF pk # 0
        THEN StageUpdate(tbl, pk, sd, sd0, region_id)
        ELSE StageInsert(sd, sd0, region_id, yr)

\* the flush of the pending Storm write
ApplyStorm(tbl, pend) ==
  CASE pend.kind = "insert" -> Append(tbl, pend.vals)
    [] pend.kind = "update" ->
         [tbl EXCEPT ![pend.pk] =
            [c \in Cols |-> IF c \in DOMAIN pend.vals THEN pend.vals[c] ELSE @[c]]]
    [] OTHER -> tbl

MarkInactiveSkip(tbl) == tbl

MarkInactiveDeletes(tbl) == SelectSeq(tbl, LAMBDA r : r["status"] # Some("active"))

MarkInactiveClearsWallet(tbl) ==
  [i \in 1..Len(tbl) |-> [tbl[i] EXCEPT !["status"] = Some("inactive"),
                                        !["wallet_url"] = None]]

\* main 242: db.query(Storm).update({"status": "inactive"})
MarkInactive(tbl) ==
  [i \in 1..Len(tbl) |-> [tbl[i] EXCEPT !["status"] = Some("inactive")]]

VARIABLES
  storms,         \* table storms: the committed rows, in primary-key order
  history,        \* table storm_history: the committed rows, in insert order
  regions,        \* table regions: sequence of [id, active]
  year,           \* current UTC year
  nprocs,         \* pipeline processes sharing the storage
  runs,           \* runs started so far
  records,        \* storm records read from feeds so far
  pc,             \* per process: position in main
  active_regions, \* per process: the region ids main iterates
  regionIdx,      \* per process: index of main's region loop
  nItems,         \* per process: len(items) of the primary feed
  itemIdx,        \* per process: i of the primary item loop
  wItems,         \* per process: len(items) of the wallet feed
  wIdx,           \* per process: i of the wallet item loop
  sess,           \* per process: what the session holds uncommitted
  ev,             \* per process: how its last statement ended
  observed,       \* per process: identifiers handed to update_storm_data in this run
  committed,      \* per process: identifiers whose reconcile committed in this run
  call,           \* a call of a parser function on its own: name, argument, outcome
  sched           \* the scheduler's loop: position, ticks computed, last log
                  \* line, and what the run it called has logged

vars == <<storms, history, regions, year, nprocs, runs, records, pc,
          active_regions, regionIdx, nItems, itemIdx, wItems, wIdx, sess, ev,
          observed, committed, call, sched>>

NoCall == [fn |-> "none", arg |-> <<>>, res |-> <<>>]

\* no scheduler: main() is invoked from outside
SchedOff == [pc |-> "off", ticks |-> 0, log |-> "none", fetches |-> 0,
             items |-> 0]

\* The run called by the scheduler logs to the scheduler's handlers
\* (scheduler.py 52-56): f lines "Fetching RSS feed" of fetch_rss_feed 136
\* and a line "Found i items in ... feed" of process_region 194 are added to
\* what the current run has logged.
Logged(s, f, i) ==
  IF s.pc = "off" THEN s ELSE [s EXCEPT !.fetches = @ + f, !.items = @ + i]

Upd(f, p, v) == [f EXCEPT ![p] = v]
Add(f, p, x) == [f EXCEPT ![p] = @ \cup {x}]

Running == {"reset", "region", "item", "commit", "wallet", "witem", "wcommit"}

\* region.id of the region process_region is working on
CurRegion(p) == active_regions[p][regionIdx[p]]

\* no process has entered main()
InitProcesses ==
  /\ year = 2025
  /\ runs = 0
  /\ records = 0
  /\ pc = [p \in Proc |-> "idle"]
  /\ active_regions = [p \in Proc |-> <<>>]
  /\ regionIdx = [p \in Proc |-> 0]
  /\ nItems = [p \in Proc |-> 0]
  /\ itemIdx = [p \in Proc |-> 0]
  /\ wItems = [p \in Proc |-> 0]
  /\ wIdx = [p \in Proc |-> 0]
  /\ sess = [p \in Proc |-> NoPending]
  /\ ev = [p \in Proc |-> "ok"]
  /\ observed = [p \in Proc |-> {}]
  /\ committed = [p \in Proc |-> {}]
  /\ call = NoCall

\* storage after init_db: the tables exist, the regions are loaded, no storm
InitCommon ==
  /\ storms = <<>>
  /\ history = <<>>
  /\ InitProcesses

\* one scheduler process: runs follow one another
Init ==
  /\ InitCommon
  /\ sched = SchedOff
  /\ nprocs = 1
  /\ regions \in {<<[id |-> 1, name |-> "Eastern Pacific", active |-> a],
                      [id |-> 2, name |-> "Atlantic", active |-> b]>> :
                    a \in BOOLEAN, b \in BOOLEAN}

\* two invocations of the entry point on the same storage
InitConc ==
  /\ InitCommon
  /\ sched = SchedOff
  /\ nprocs = 2
  /\ regions = <<[id |-> 1, name |-> "Eastern Pacific", active |-> TRUE],
                 [id |-> 2, name |-> "Atlantic", active |-> FALSE]>>

\* the year read by datetime.now(timezone.utc).year turns; the turn is
\* taken between runs
NewYear ==
  /\ \A p \in Proc : pc[p] \notin Running
  /\ year + 1 \in Years
  /\ year' = year + 1
  /\ UNCHANGED <<storms, history, regions, nprocs, runs, records, pc,
                 active_regions, regionIdx, nItems, itemIdx, wItems, wIdx,
                 sess, ev, observed, committed, call, sched>>

\* init_db is run again on the existing storage (models.py 231-244, with the
\* configuration the regions were loaded from): update_existing_storms_region
\* gives the Eastern Pacific region to the rows that have none, in one commit
update_existing_storms_region ==
  /\ \E i \in 1..Len(regions) : regions[i].name = "Eastern Pacific"
  /\ LET ep == CHOOSE i \in 1..Len(regions) : regions[i].name = "Eastern Pacific"
     IN  /\ storms' = BackfillRegion(storms, regions[ep].id)
         /\ history' = BackfillRegion(history, regions[ep].id)
  /\ UNCHANGED <<regions, year, nprocs, runs, records, pc, active_regions,
                 regionIdx, nItems, itemIdx, wItems, wIdx, sess, ev,
                 observed, committed, call, sched>>

\* main 224-238: the arguments are parsed, the session is opened
EnterMain(p) ==
  /\ p \in 1..nprocs
  /\ pc[p] \in {"idle", "done", "failed", "crashed"}
  /\ runs < MaxRuns
  /\ runs' = runs + 1
  /\ pc' = Upd(pc, p, "reset")
  /\ active_regions' = Upd(active_regions, p, <<>>)
  /\ regionIdx' = Upd(regionIdx, p, 0)
  /\ nItems' = Upd(nItems, p, 0)
  /\ itemIdx' = Upd(itemIdx, p, 0)
  /\ wItems' = Upd(wItems, p, 0)
  /\ wIdx' = Upd(wIdx, p, 0)
  /\ sess' = Upd(sess, p, NoPending)
  /\ ev' = Upd(ev, p, "ok")
  /\ observed' = Upd(observed, p, {})
  /\ committed' = Upd(committed, p, {})
  /\ UNCHANGED <<storms, history, regions, year, nprocs, records, call>>

StartRunLocked(p) ==
  /\ \A o \in Proc : pc[o] \notin Running
  /\ EnterMain(p)
  /\ UNCHANGED sched

\* main() is invoked from outside the program (command line, cron)
StartRun(p) ==
  /\ EnterMain(p)
  /\ UNCHANGED sched

\* the ids of the regions flagged active, in table order
ActiveIds(rs) ==
  LET act == SelectSeq(rs, LAMBDA r : r.active)
  IN  [i \in 1..Len(act) |-> act[i].id]

ResetNotDurable(p) ==
  /\ pc[p] = "reset"
  /\ active_regions' = Upd(active_regions, p, ActiveIds(regions))
  /\ IF ActiveIds(regions) = <<>>
       THEN /\ pc' = Upd(pc, p, "done")
            /\ UNCHANGED regionIdx
       ELSE /\ pc' = Upd(pc, p, "region")
            /\ regionIdx' = Upd(regionIdx, p, 1)
  /\ ev' = Upd(ev, p, "ok")
  /\ UNCHANGED <<storms, history, regions, year, nprocs, runs, records,
                 nItems, itemIdx, wItems, wIdx, sess, observed, committed,
                 call, sched>>

\* main, lines 240-251: the reset commits, the active regions are read
ResetCommit(p) ==
  /\ pc[p] = "reset"
  /\ storms' = MarkInactive(storms)
  /\ active_regions' = Upd(active_regions, p, ActiveIds(regions))
  /\ IF ActiveIds(regions) = <<>>
       THEN /\ pc' = Upd(pc, p, "done")
            /\ UNCHANGED regionIdx
       ELSE /\ pc' = Upd(pc, p, "region")
            /\ regionIdx' = Upd(regionIdx, p, 1)
  /\ ev' = Upd(ev, p, "ok")
  /\ UNCHANGED <<history, regions, year, nprocs, runs, records, nItems,
                 itemIdx, wItems, wIdx, sess, observed, committed, call,
                 sched>>

\* main, lines 244 and 263-267: the reset's commit fails, main re-raises
ResetFails(p) ==
  /\ pc[p] = "reset"
  /\ pc' = Upd(pc, p, "failed")
  /\ ev' = Upd(ev, p, "error")
  /\ UNCHANGED <<storms, history, regions, year, nprocs, runs, records,
                 active_regions, regionIdx, nItems, itemIdx, wItems, wIdx,
                 sess, observed, committed, call, sched>>

FetchPrimaryFailsAborts(p) ==
  /\ pc[p] = "region"
  /\ regionIdx[p] <= Len(active_regions[p])
  /\ pc' = Upd(pc, p, "done")
  /\ ev' = Upd(ev, p, "no_document")
  /\ UNCHANGED <<storms, history, regions, year, nprocs, runs, records,
                 active_regions, regionIdx, nItems, itemIdx, wItems, wIdx,
                 sess, observed, committed, call, sched>>

\* process_region, lines 188-191: fetch_rss_feed returns None
FetchPrimaryFails(p) ==
  /\ pc[p] = "region"
  /\ regionIdx[p] <= Len(active_regions[p])
  /\ \E response \in Responses : fetch_rss_feed(response) = Ret(None)
  /\ regionIdx' = Upd(regionIdx, p, regionIdx[p] + 1)
  /\ ev' = Upd(ev, p, "no_document")
  /\ sched' = Logged(sched, 1, 0)
  /\ UNCHANGED <<storms, history, regions, year, nprocs, runs, records, pc,
                 active_regions, nItems, itemIdx, wItems, wIdx, sess,
                 observed, committed, call>>

\* process_region, lines 188-195: a document with n items
FetchPrimary(p) ==
  /\ pc[p] = "region"
  /\ regionIdx[p] <= Len(active_regions[p])
  /\ \E response \in Responses : fetch_rss_feed(response) = Ret(Some("soup"))
  /\ \E n \in 0..MaxItems :
       /\ nItems' = Upd(nItems, p, n)
       /\ sched' = Logged(sched, 1, n)
  /\ itemIdx' = Upd(itemIdx, p, 1)
  /\ pc' = Upd(pc, p, "item")
  /\ ev' = Upd(ev, p, "ok")
  /\ UNCHANGED <<storms, history, regions, year, nprocs, runs, records,
                 active_regions, regionIdx, wItems, wIdx, sess, observed,
                 committed, call>>

\* process_region: the item loop is exhausted, main takes the next region
EndRegion(p) ==
  /\ pc[p] = "item"
  /\ itemIdx[p] > nItems[p]
  /\ regionIdx' = Upd(regionIdx, p, regionIdx[p] + 1)
  /\ pc' = Upd(pc, p, "region")
  /\ ev' = Upd(ev, p, "ok")
  /\ UNCHANGED <<storms, history, regions, year, nprocs, runs, records,
                 active_regions, nItems, itemIdx, wItems, wIdx, sess,
                 observed, committed, call, sched>>

\* main, lines 258-271: every region done, the session is closed
EndRun(p) ==
  /\ pc[p] = "region"
  /\ regionIdx[p] > Len(active_regions[p])
  /\ pc' = Upd(pc, p, "done")
  /\ ev' = Upd(ev, p, "ok")
  /\ UNCHANGED <<storms, history, regions, year, nprocs, runs, records,
                 active_regions, regionIdx, nItems, itemIdx, wItems, wIdx,
                 sess, observed, committed, call, sched>>

\* outcomes of get_storm_data: a record, and one that carries a storm_id
IsRecord(r) == r.exc = "none" /\ r.val # None
IsStormRecord(r) == IsRecord(r) /\ TruthyStr(r.val[1]["storm_id"])

\* the outcomes of get_storm_data on the items of the feeds, and those
\* that are no record with a storm_id
Outcomes == {Extracted[it, now] : it \in Items, now \in FeedClock}
NoStormOutcomes == {r \in Outcomes : ~IsStormRecord(r)}

\* the outcomes a feed item may have while the bound on storm records allows
OutcomesNow == IF records < MaxRecords THEN Outcomes ELSE NoStormOutcomes

(* ------------------ process_region: the primary item loop -------------- *)
\* lines 201-202, 212-213: get_storm_data finds no Cyclone element
PrimaryItemPlain(p) ==
  /\ pc[p] = "item"
  /\ itemIdx[p] <= nItems[p]
  /\ \E r \in OutcomesNow : r = Ret(None)
  /\ itemIdx' = Upd(itemIdx, p, itemIdx[p] + 1)
  /\ ev' = Upd(ev, p, "ok")
  /\ UNCHANGED <<storms, history, regions, year, nprocs, runs, records, pc,
                 active_regions, regionIdx, nItems, wItems, wIdx, sess,
                 observed, committed, call, sched>>

\* lines 201, 215-217: get_storm_data raises, the item loop catches it
PrimaryItemRaises(p) ==
  /\ pc[p] = "item"
  /\ itemIdx[p] <= nItems[p]
  /\ \E r \in OutcomesNow : r.exc # "none"
  /\ itemIdx' = Upd(itemIdx, p, itemIdx[p] + 1)
  /\ ev' = Upd(ev, p, "error")
  /\ UNCHANGED <<storms, history, regions, year, nprocs, runs, records, pc,
                 active_regions, regionIdx, nItems, wItems, wIdx, sess,
                 observed, committed, call, sched>>

PrimaryItemNoIdEscapes(p) ==
  /\ pc[p] = "item"
  /\ itemIdx[p] <= nItems[p]
  /\ \E r \in OutcomesNow : IsRecord(r) /\ ~IsStormRecord(r)
  /\ pc' = Upd(pc, p, "failed")
  /\ ev' = Upd(ev, p, "error")
  /\ UNCHANGED <<storms, history, regions, year, nprocs, runs, records,
                 active_regions, regionIdx, nItems, itemIdx, wItems, wIdx,
                 sess, observed, committed, call, sched>>

\* lines 74-77, 204-217: the record has no storm_id, update_storm_data
\* returns None; line 211 then reads storm.storm_id of None, which raises
\* and is caught by the item loop
PrimaryItemNoId(p) ==
  /\ pc[p] = "item"
  /\ itemIdx[p] <= nItems[p]
  /\ \E r \in OutcomesNow : IsRecord(r) /\ ~IsStormRecord(r)
  /\ itemIdx' = Upd(itemIdx, p, itemIdx[p] + 1)
  /\ ev' = Upd(ev, p, "error")
  /\ UNCHANGED <<storms, history, regions, year, nprocs, runs, records, pc,
                 active_regions, regionIdx, nItems, wItems, wIdx, sess,
                 observed, committed, call, sched>>

\* lines 201-204 and update_storm_data 74-123: the record is extracted,
\* the Storm row is looked up and the changes are held by the session
PrimaryItemLookup(p) ==
  /\ pc[p] = "item"
  /\ itemIdx[p] <= nItems[p]
  /\ \E r \in OutcomesNow :
       /\ IsStormRecord(r)
       /\ sess' = Upd(sess, p, StageReconcile(storms, r.val[1],
                                              CurRegion(p), year))
       /\ observed' = Add(observed, p, r.val[1]["storm_id"][1])
  /\ records' = records + 1
  /\ pc' = Upd(pc, p, "commit")
  /\ ev' = Upd(ev, p, "ok")
  /\ UNCHANGED <<storms, history, regions, year, nprocs, runs,
                 active_regions, regionIdx, nItems, itemIdx, wItems, wIdx,
                 committed, call, sched>>

\* the primary key of the row the pending write lands on
PendingPk(tbl, pend) == IF pend.kind = "insert" THEN Len(tbl) + 1 ELSE pend.pk

PrimaryCommitNoCascade(p) ==
  /\ pc[p] = "commit"
  /\ UniqueOk(storms, sess[p])
  /\ storms' = ApplyStorm(storms, sess[p])
  /\ history' = history \o sess[p].hist
  /\ sess' = Upd(sess, p, NoPending)
  /\ committed' = Add(committed, p, sess[p].sd["storm_id"][1])
  /\ pc' = Upd(pc, p, "item")
  /\ itemIdx' = Upd(itemIdx, p, itemIdx[p] + 1)
  /\ ev' = Upd(ev, p, "ok")
  /\ UNCHANGED <<regions, year, nprocs, runs, records, active_regions,
                 regionIdx, nItems, wItems, wIdx, observed, call, sched>>

\* update_storm_data 125-126 and process_region 207-211: the commit
\* succeeds, the Storm is returned, and its wallet_url decides the cascade
PrimaryCommit(p) ==
  /\ pc[p] = "commit"
  /\ UniqueOk(storms, sess[p])
  /\ storms' = ApplyStorm(storms, sess[p])
  /\ history' = history \o sess[p].hist
  /\ sess' = Upd(sess, p, NoPending)
  /\ committed' = Add(committed, p, sess[p].sd["storm_id"][1])
  /\ IF TruthyStr(storms'[PendingPk(storms, sess[p])]["wallet_url"])
       THEN /\ pc' = Upd(pc, p, "wallet")
            /\ UNCHANGED itemIdx
       ELSE /\ pc' = Upd(pc, p, "item")
            /\ itemIdx' = Upd(itemIdx, p, itemIdx[p] + 1)
  /\ ev' = Upd(ev, p, "ok")
  /\ UNCHANGED <<regions, year, nprocs, runs, records, active_regions,
                 regionIdx, nItems, wItems, wIdx, observed, call, sched>>

PrimaryCommitFailsEscapes(p) ==
  /\ pc[p] = "commit"
  /\ sess' = Upd(sess, p, NoPending)
  /\ pc' = Upd(pc, p, "failed")
  /\ ev' = Upd(ev, p, "error")
  /\ UNCHANGED <<storms, history, regions, year, nprocs, runs, records,
                 active_regions, regionIdx, nItems, itemIdx, wItems, wIdx,
                 observed, committed, call, sched>>

PrimaryCommitFailsKeepsStorm(p) ==
  /\ pc[p] = "commit"
  /\ storms' = ApplyStorm(storms, sess[p])
  /\ sess' = Upd(sess, p, NoPending)
  /\ itemIdx' = Upd(itemIdx, p, itemIdx[p] + 1)
  /\ pc' = Upd(pc, p, "item")
  /\ ev' = Upd(ev, p, "error")
  /\ UNCHANGED <<history, regions, year, nprocs, runs, records,
                 active_regions, regionIdx, nItems, wItems, wIdx, observed,
                 committed, call, sched>>

PrimaryCommitFailsUndoesRun(p) ==
  /\ pc[p] = "commit"
  /\ storms' = [i \in 1..Len(storms) |->
                  IF storms[i]["storm_id"][1] \in committed[p]
                    THEN [storms[i] EXCEPT !["status"] = Some("inactive")]
                    ELSE storms[i]]
  /\ sess' = Upd(sess, p, NoPending)
  /\ itemIdx' = Upd(itemIdx, p, itemIdx[p] + 1)
  /\ pc' = Upd(pc, p, "item")
  /\ ev' = Upd(ev, p, "error")
  /\ UNCHANGED <<history, regions, year, nprocs, runs, records,
                 active_regions, regionIdx, nItems, wItems, wIdx, observed,
                 committed, call, sched>>

\* update_storm_data 127-130 and process_region 215-217: the commit fails,
\* the session is rolled back, the error is raised and the item loop
\* catches it
PrimaryCommitFails(p) ==
  /\ pc[p] = "commit"
  /\ sess' = Upd(sess, p, NoPending)
  /\ itemIdx' = Upd(itemIdx, p, itemIdx[p] + 1)
  /\ pc' = Upd(pc, p, "item")
  /\ ev' = Upd(ev, p, "error")
  /\ UNCHANGED <<storms, history, regions, year, nprocs, runs, records,
                 active_regions, regionIdx, nItems, wItems, wIdx, observed,
                 committed, call, sched>>

\* the items a wallet feed holds at most: a single one where two processes
\* share the storage
WalletItemsBound == IF nprocs = 1 THEN MaxWalletItems ELSE 1

(* ------------------------- process_wallet_feed ------------------------- *)
FetchWalletFailsRaises(p) ==
  /\ pc[p] = "wallet"
  /\ \E response \in Responses : fetch_rss_feed(response) = Ret(None)
  /\ itemIdx' = Upd(itemIdx, p, itemIdx[p] + 1)
  /\ pc' = Upd(pc, p, "item")
  /\ ev' = Upd(ev, p, "error")
  /\ UNCHANGED <<storms, history, regions, year, nprocs, runs, records,
                 active_regions, regionIdx, nItems, wItems, wIdx, sess,
                 observed, committed, call, sched>>

\* lines 143-146: the wallet fetch returns None, the cascade returns
FetchWalletFails(p) ==
  /\ pc[p] = "wallet"
  /\ \E response \in Responses : fetch_rss_feed(response) = Ret(None)
  /\ itemIdx' = Upd(itemIdx, p, itemIdx[p] + 1)
  /\ pc' = Upd(pc, p, "item")
  /\ ev' = Upd(ev, p, "no_document")
  /\ sched' = Logged(sched, 1, 0)
  /\ UNCHANGED <<storms, history, regions, year, nprocs, runs, records,
                 active_regions, regionIdx, nItems, wItems, wIdx, sess,
                 observed, committed, call>>

\* lines 143-149: a wallet document with m items
FetchWallet(p) ==
  /\ pc[p] = "wallet"
  /\ \E response \in Responses : fetch_rss_feed(response) = Ret(Some("soup"))
  /\ \E m \in 0..WalletItemsBound : wItems' = Upd(wItems, p, m)
  /\ wIdx' = Upd(wIdx, p, 1)
  /\ pc' = Upd(pc, p, "witem")
  /\ ev' = Upd(ev, p, "ok")
  /\ sched' = Logged(sched, 1, 0)
  /\ UNCHANGED <<storms, history, regions, year, nprocs, runs, records,
                 active_regions, regionIdx, nItems, itemIdx, sess, observed,
                 committed, call>>

EndWalletEarly(p) ==
  /\ pc[p] = "witem"
  /\ itemIdx' = Upd(itemIdx, p, itemIdx[p] + 1)
  /\ pc' = Upd(pc, p, "item")
  /\ ev' = Upd(ev, p, "ok")
  /\ UNCHANGED <<storms, history, regions, year, nprocs, runs, records,
                 active_regions, regionIdx, nItems, wItems, wIdx, sess,
                 observed, committed, call, sched>>

\* the wallet loop is exhausted, process_region takes the next primary item
EndWallet(p) ==
  /\ pc[p] = "witem"
  /\ wIdx[p] > wItems[p]
  /\ itemIdx' = Upd(itemIdx, p, itemIdx[p] + 1)
  /\ pc' = Upd(pc, p, "item")
  /\ ev' = Upd(ev, p, "ok")
  /\ UNCHANGED <<storms, history, regions, year, nprocs, runs, records,
                 active_regions, regionIdx, nItems, wItems, wIdx, sess,
                 observed, committed, call, sched>>

\* lines 153-158: no Cyclone element in the wallet item
WalletItemPlain(p) ==
  /\ pc[p] = "witem"
  /\ wIdx[p] <= wItems[p]
  /\ \E r \in OutcomesNow : r = Ret(None)
  /\ wIdx' = Upd(wIdx, p, wIdx[p] + 1)
  /\ ev' = Upd(ev, p, "ok")
  /\ UNCHANGED <<storms, history, regions, year, nprocs, runs, records, pc,
                 active_regions, regionIdx, nItems, itemIdx, wItems, sess,
                 observed, committed, call, sched>>

\* lines 153, 160-162 and process_region 215-217: get_storm_data raises,
\* process_wallet_feed logs and re-raises, the primary item loop catches
WalletItemRaises(p) ==
  /\ pc[p] = "witem"
  /\ wIdx[p] <= wItems[p]
  /\ \E r \in OutcomesNow : r.exc # "none"
  /\ itemIdx' = Upd(itemIdx, p, itemIdx[p] + 1)
  /\ pc' = Upd(pc, p, "item")
  /\ ev' = Upd(ev, p, "error")
  /\ UNCHANGED <<storms, history, regions, year, nprocs, runs, records,
                 active_regions, regionIdx, nItems, wItems, wIdx, sess,
                 observed, committed, call, sched>>

\* lines 153-156 and update_storm_data 74-77: no storm_id, None is
\* returned and ignored
WalletItemNoId(p) ==
  /\ pc[p] = "witem"
  /\ wIdx[p] <= wItems[p]
  /\ \E r \in OutcomesNow : IsRecord(r) /\ ~IsStormRecord(r)
  /\ wIdx' = Upd(wIdx, p, wIdx[p] + 1)
  /\ ev' = Upd(ev, p, "ok")
  /\ UNCHANGED <<storms, history, regions, year, nprocs, runs, records, pc,
                 active_regions, regionIdx, nItems, itemIdx, wItems, sess,
                 observed, committed, call, sched>>

\* lines 153-156 and update_storm_data 74-123 for a wallet item
WalletItemLookup(p) ==
  /\ pc[p] = "witem"
  /\ wIdx[p] <= wItems[p]
  /\ \E r \in OutcomesNow :
       /\ IsStormRecord(r)
       /\ sess' = Upd(sess, p, StageReconcile(storms, r.val[1],
                                              CurRegion(p), year))
       /\ observed' = Add(observed, p, r.val[1]["storm_id"][1])
  /\ records' = records + 1
  /\ pc' = Upd(pc, p, "wcommit")
  /\ ev' = Upd(ev, p, "ok")
  /\ UNCHANGED <<storms, history, regions, year, nprocs, runs,
                 active_regions, regionIdx, nItems, itemIdx, wItems, wIdx,
                 committed, call, sched>>

WalletCommitCascades(p) ==
  /\ pc[p] = "wcommit"
  /\ UniqueOk(storms, sess[p])
  /\ storms' = ApplyStorm(storms, sess[p])
  /\ history' = history \o sess[p].hist
  /\ sess' = Upd(sess, p, NoPending)
  /\ committed' = Add(committed, p, sess[p].sd["storm_id"][1])
  /\ IF TruthyStr(storms'[PendingPk(storms, sess[p])]["wallet_url"])
       THEN /\ pc' = Upd(pc, p, "wallet")
            /\ UNCHANGED wIdx
       ELSE /\ pc' = Upd(pc, p, "witem")
            /\ wIdx' = Upd(wIdx, p, wIdx[p] + 1)
  /\ ev' = Upd(ev, p, "ok")
  /\ UNCHANGED <<regions, year, nprocs, runs, records, active_regions,
                 regionIdx, nItems, itemIdx, wItems, observed, call, sched>>

\* update_storm_data 125-126 from the wallet loop: the result is ignored
WalletCommit(p) ==
  /\ pc[p] = "wcommit"
  /\ UniqueOk(storms, sess[p])
  /\ storms' = ApplyStorm(storms, sess[p])
  /\ history' = history \o sess[p].hist
  /\ sess' = Upd(sess, p, NoPending)
  /\ committed' = Add(committed, p, sess[p].sd["storm_id"][1])
  /\ wIdx' = Upd(wIdx, p, wIdx[p] + 1)
  /\ pc' = Upd(pc, p, "witem")
  /\ ev' = Upd(ev, p, "ok")
  /\ UNCHANGED <<regions, year, nprocs, runs, records, active_regions,
                 regionIdx, nItems, itemIdx, wItems, observed, call, sched>>

WalletCommitFailsKeepsStorm(p) ==
  /\ pc[p] = "wcommit"
  /\ storms' = ApplyStorm(storms, sess[p])
  /\ sess' = Upd(sess, p, NoPending)
  /\ itemIdx' = Upd(itemIdx, p, itemIdx[p] + 1)
  /\ pc' = Upd(pc, p, "item")
  /\ ev' = Upd(ev, p, "error")
  /\ UNCHANGED <<history, regions, year, nprocs, runs, records,
                 active_regions, regionIdx, nItems, wItems, wIdx, observed,
                 committed, call, sched>>

\* update_storm_data 127-130, process_wallet_feed 160-162, process_region
\* 215-217: rollback, the error leaves the wallet loop and is caught by
\* the primary item loop
WalletCommitFails(p) ==
  /\ pc[p] = "wcommit"
  /\ sess' = Upd(sess, p, NoPending)
  /\ itemIdx' = Upd(itemIdx, p, itemIdx[p] + 1)
  /\ pc' = Upd(pc, p, "item")
  /\ ev' = Upd(ev, p, "error")
  /\ UNCHANGED <<storms, history, regions, year, nprocs, runs, records,
                 active_regions, regionIdx, nItems, wItems, wIdx, observed,
                 committed, call, sched>>

\* the process dies: its locals and what its session had not committed
\* are lost
Crash(p) ==
  /\ pc[p] \in Running
  /\ pc' = Upd(pc, p, "crashed")
  /\ active_regions' = Upd(active_regions, p, <<>>)
  /\ regionIdx' = Upd(regionIdx, p, 0)
  /\ nItems' = Upd(nItems, p, 0)
  /\ itemIdx' = Upd(itemIdx, p, 0)
  /\ wItems' = Upd(wItems, p, 0)
  /\ wIdx' = Upd(wIdx, p, 0)
  /\ sess' = Upd(sess, p, NoPending)
  /\ ev' = Upd(ev, p, "ok")
  /\ observed' = Upd(observed, p, {})
  /\ committed' = Upd(committed, p, {})
  /\ UNCHANGED <<storms, history, regions, year, nprocs, runs, records, call,
               sched>>

\* the steps of a run that is under way
RunStep(p) ==
  \/ ResetCommit(p)
  \/ ResetFails(p)
  \/ FetchPrimaryFails(p)
  \/ FetchPrimary(p)
  \/ EndRegion(p)
  \/ EndRun(p)
  \/ PrimaryItemPlain(p)
  \/ PrimaryItemRaises(p)
  \/ PrimaryItemNoId(p)
  \/ PrimaryItemLookup(p)
  \/ PrimaryCommit(p)
  \/ PrimaryCommitFails(p)
  \/ FetchWalletFails(p)
  \/ FetchWallet(p)
  \/ EndWallet(p)
  \/ WalletItemPlain(p)
  \/ WalletItemRaises(p)
  \/ WalletItemNoId(p)
  \/ WalletItemLookup(p)
  \/ WalletCommit(p)
  \/ WalletCommitFails(p)
  \/ Crash(p)

Step(p) ==
  \/ StartRun(p)
  \/ RunStep(p)

Next ==
  \/ NewYear
  \/ update_existing_storms_region
  \/ \E p \in Proc : Step(p)

Spec == Init /\ [][Next]_vars

(* --------------- the functions of nhc_parser.py on their own ----------- *)
InitParser ==
  /\ InitCommon
  /\ sched = SchedOff
  /\ nprocs = 0
  /\ regions = <<>>

CallFetchRssFeed ==
  /\ call = NoCall
  /\ \E response \in Responses :
       call' = [fn |-> "fetch_rss_feed", arg |-> response,
                res |-> fetch_rss_feed(response)]
  /\ UNCHANGED <<storms, history, regions, year, nprocs, runs, records, pc,
                 active_regions, regionIdx, nItems, itemIdx, wItems, wIdx,
                 sess, ev, observed, committed, sched>>

CallGetStormData ==
  /\ call = NoCall
  /\ \E item \in XmlItems, now \in Clock :
       call' = [fn |-> "get_storm_data", arg |-> [item |-> item, now |-> now],
                res |-> get_storm_data(item, now)]
  /\ UNCHANGED <<storms, history, regions, year, nprocs, runs, records, pc,
                 active_regions, regionIdx, nItems, itemIdx, wItems, wIdx,
                 sess, ev, observed, committed, sched>>

CallParseCoordinates ==
  /\ call = NoCall
  /\ \E coord_str \in CoordTexts :
       call' = [fn |-> "parse_coordinates", arg |-> coord_str,
                res |-> parse_coordinates(coord_str)]
  /\ UNCHANGED <<storms, history, regions, year, nprocs, runs, records, pc,
                 active_regions, regionIdx, nItems, itemIdx, wItems, wIdx,
                 sess, ev, observed, committed, sched>>

CallCleanNumeric ==
  /\ call = NoCall
  /\ \E value \in NumTexts :
       call' = [fn |-> "clean_numeric", arg |-> value,
                res |-> clean_numeric(value)]
  /\ UNCHANGED <<storms, history, regions, year, nprocs, runs, records, pc,
                 active_regions, regionIdx, nItems, itemIdx, wItems, wIdx,
                 sess, ev, observed, committed, sched>>

CallParseDatetime ==
  /\ call = NoCall
  /\ \E dt_str \in DateTexts, now \in Clock :
       call' = [fn |-> "parse_datetime",
                arg |-> [dt_str |-> dt_str, now |-> now],
                res |-> parse_datetime(dt_str, now)]
  /\ UNCHANGED <<storms, history, regions, year, nprocs, runs, records, pc,
                 active_regions, regionIdx, nItems, itemIdx, wItems, wIdx,
                 sess, ev, observed, committed, sched>>

NextParser ==
  \/ CallFetchRssFeed
  \/ CallGetStormData
  \/ CallParseCoordinates
  \/ CallCleanNumeric
  \/ CallParseDatetime

SpecParser == InitParser /\ [][NextParser]_vars

SpecConc == InitConc /\ [][Next]_vars

(* ------------- overlapping runs on a storage that holds a storm -------- *)
\* the record of a bulletin of storm AL01, and what its reconcile on the
\* empty storage commits
SeedRecord ==
  get_storm_data(CycloneItem(Some(AL01), None, Some(<<"d1">>), 1),
                 CHOOSE now \in FeedClock : TRUE).val[1]
SeedPending == StageReconcile(<<>>, SeedRecord, 1, 2025)

\* two invocations of the entry point on the storage an earlier run left
\* with one storm
InitOverlap ==
  /\ storms = ApplyStorm(<<>>, SeedPending)
  /\ history = SeedPending.hist
  /\ InitProcesses
  /\ sched = SchedOff
  /\ nprocs = 2
  /\ regions = <<[id |-> 1, name |-> "Eastern Pacific", active |-> TRUE],
                 [id |-> 2, name |-> "Atlantic", active |-> FALSE]>>

NextOverlap == \E p \in Proc : Step(p)

SpecOverlap == InitOverlap /\ [][NextOverlap]_vars

(* --------------------------- src/scheduler.py -------------------------- *)
\* main 91-92: the cron iterator is set up, the loop is entered
SchedOn == [pc |-> "next", ticks |-> 0, log |-> "none", fetches |-> 0,
            items |-> 0]

\* the scheduler and the runs it calls are one process; the second place of
\* the process table stays empty.  The scheduler is started on the storage
\* init_db made, or on one that holds a storm of an earlier run, with the
\* regions as init_db loaded them last (models.py 177-183 sets the active
\* flag of a stored region from the configuration).
InitSched ==
  /\ \/ storms = <<>> /\ history = <<>>
     \/ storms = ApplyStorm(<<>>, SeedPending) /\ history = SeedPending.hist
  /\ InitProcesses
  /\ sched = SchedOn
  /\ nprocs = 2
  /\ regions \in {<<[id |-> 1, name |-> "Eastern Pacific", active |-> a],
                      [id |-> 2, name |-> "Atlantic", active |-> FALSE]>> :
                    a \in BOOLEAN}

\* lines 97-98: iter.get_next computes the next run time
SchedNextRun ==
  /\ sched.pc = "next"
  /\ sched' = [sched EXCEPT !.pc = "sleep", !.ticks = @ + 1]
  /\ UNCHANGED <<storms, history, regions, year, nprocs, runs, records, pc,
                 active_regions, regionIdx, nItems, itemIdx, wItems, wIdx,
                 sess, ev, observed, committed, call>>

SchedRunPipelineDetached ==
  /\ sched.pc = "sleep"
  /\ \E p \in 1..nprocs : EnterMain(p)
  /\ sched' = [sched EXCEPT !.pc = "next"]

\* lines 101-111: the sleep is over, run_pipeline() is called and the loop
\* waits in the call
SchedRunPipeline ==
  /\ sched.pc = "sleep"
  /\ EnterMain(1)
  /\ sched' = [sched EXCEPT !.pc = "run", !.fetches = 0, !.items = 0]

\* lines 111-112 and 117: run_pipeline() returned
SchedCompleted ==
  /\ sched.pc = "run"
  /\ pc[1] = "done"
  /\ sched' = [sched EXCEPT !.pc = "next", !.log = "completed"]
  /\ UNCHANGED <<storms, history, regions, year, nprocs, runs, records, pc,
                 active_regions, regionIdx, nItems, itemIdx, wItems, wIdx,
                 sess, ev, observed, committed, call>>

SchedErrorExits ==
  /\ sched.pc = "run"
  /\ pc[1] = "failed"
  /\ sched' = [sched EXCEPT !.pc = "exit", !.log = "error"]
  /\ UNCHANGED <<storms, history, regions, year, nprocs, runs, records, pc,
                 active_regions, regionIdx, nItems, itemIdx, wItems, wIdx,
                 sess, ev, observed, committed, call>>

\* lines 113-117: run_pipeline() raised, the error is logged and the loop
\* goes on
SchedError ==
  /\ sched.pc = "run"
  /\ pc[1] = "failed"
  /\ sched' = [sched EXCEPT !.pc = "next", !.log = "error"]
  /\ UNCHANGED <<storms, history, regions, year, nprocs, runs, records, pc,
                 active_regions, regionIdx, nItems, itemIdx, wItems, wIdx,
                 sess, ev, observed, committed, call>>

NextSched ==
  \/ SchedNextRun
  \/ SchedRunPipeline
  \/ SchedCompleted
  \/ SchedError
  \/ \E p \in Proc : RunStep(p)

\* the process of the scheduler is not held up: the run it called goes on
\* (or the process dies), and each statement of the loop is executed once
\* it is reached
SchedFairness ==
  /\ WF_vars(RunStep(1))
  /\ WF_vars(SchedNextRun)
  /\ WF_vars(SchedRunPipeline)
  /\ WF_vars(SchedCompleted)
  /\ WF_vars(SchedError)

SpecSched == InitSched /\ [][NextSched]_vars /\ SchedFairness

(* ======================= properties of the pipeline ==================== *)
\* the steps of a process, told by what they leave behind
CommitPcs == {"commit", "wcommit"}
ItemPcs == {"item", "commit", "wallet", "witem", "wcommit"}

\* update_storm_data returned its Storm: db.commit() went through
CommitReturned(p) ==
  pc[p] \in CommitPcs /\ pc'[p] \notin CommitPcs \cup {"crashed"} /\ ev'[p] = "ok"

\* the record update_storm_data was called with, and its storm identifier
RecordOf(p) == sess[p].sd
IdOf(p) == sess[p].sd["storm_id"][1]

Stored(tbl, sid) == \E i \in 1..Len(tbl) : tbl[i]["storm_id"] = Some(sid)
RowOf(tbl, sid) == CHOOSE i \in 1..Len(tbl) : tbl[i]["storm_id"] = Some(sid)

\* C1: a reconcile that commits adds one StormHistory row if the storm
\* identifier was not stored before it, or the record's report_date differs
\* from the stored one, and adds none otherwise (whatever else differs).
C1_HistoryIffNewOrNewReportDate ==
  [][\A p \in Proc : CommitReturned(p) =>
       LET sid == IdOf(p)
           wanted == \/ ~Stored(storms, sid)
                     \/ storms[RowOf(storms, sid)]["report_date"]
                          # RecordOf(p)["report_date"]
       IN  /\ Len(history') = Len(history) + (IF wanted THEN 1 ELSE 0)
           /\ SubSeq(history', 1, Len(history)) = history
           /\ wanted => history'[Len(history')]["storm_id"] = Some(sid)]_vars

\* C1 witness: a stored storm was reconciled again with the same
\* report_date and other field values, and no history row was added.
C1_Witness ==
  /\ Len(storms) = 1
  /\ Len(history) = 1
  /\ records = 2
  /\ \A p \in Proc : pc[p] \notin CommitPcs
  /\ storms[1]["report_date"] = history[1]["report_date"]
  /\ storms[1]["storm_name"] # history[1]["storm_name"]

\* C2: a reconcile that commits for an identifier not yet stored appends
\* exactly one Storm row and exactly one StormHistory row; the Storm row
\* has status active, the region id of the call and, the record carrying no
\* season, the current UTC year as season.
C2_NewStormOneRowOneHistory ==
  [][\A p \in Proc : (CommitReturned(p) /\ ~Stored(storms, IdOf(p))) =>
       /\ Len(storms') = Len(storms) + 1
       /\ SubSeq(storms', 1, Len(storms)) = storms
       /\ Len(history') = Len(history) + 1
       /\ SubSeq(history', 1, Len(history)) = history
       /\ history'[Len(history')]["storm_id"] = Some(IdOf(p))
       /\ LET row == storms'[Len(storms')]
          IN  /\ row["storm_id"] = Some(IdOf(p))
              /\ row["status"] = Some("active")
              /\ row["region_id"] = Some(CurRegion(p))
              /\ row["season"] =
                   (IF "season" \in DOMAIN RecordOf(p)
                         /\ TruthyInt(RecordOf(p)["season"])
                      THEN RecordOf(p)["season"] ELSE Some(year))]_vars

\* C2 witness: the first reconcile of a storm has committed in region 2.
C2_Witness ==
  /\ Len(storms) = 1
  /\ Len(history) = 1
  /\ records = 1
  /\ storms[1]["region_id"] = Some(2)
  /\ storms[1]["status"] = Some("active")

\* C3: a reconcile that commits for a stored storm whose stored report_date
\* equals the record's sets every field the record carries to the record's
\* value, sets status active, adds no Storm row and no StormHistory row.
C3_SameReportDateOverwritesNoHistory ==
  [][\A p \in Proc :
       (/\ CommitReturned(p)
        /\ Stored(storms, IdOf(p))
        /\ storms[RowOf(storms, IdOf(p))]["report_date"]
             = RecordOf(p)["report_date"]) =>
       LET pk == RowOf(storms, IdOf(p))
       IN  /\ Len(storms') = Len(storms)
           /\ \A i \in 1..Len(storms) : i # pk => storms'[i] = storms[i]
           /\ \A k \in DOMAIN RecordOf(p) : storms'[pk][k] = RecordOf(p)[k]
           /\ storms'[pk]["status"] = Some("active")
           /\ history' = history]_vars

\* C3 witness: a stored storm, inactive since the run's reset, was
\* reconciled with its stored report_date and another bulletin text: it is
\* active, carries the new text, and has its one history row.
C3_Witness ==
  /\ Len(storms) = 1
  /\ Len(history) = 1
  /\ records = 2
  /\ runs = 2
  /\ \A p \in Proc : pc[p] \notin CommitPcs
  /\ storms[1]["status"] = Some("active")
  /\ storms[1]["report_date"] = history[1]["report_date"]
  /\ storms[1]["headline"] # history[1]["headline"]

\* C4 (as claimed): a reconcile that commits for a stored storm with a
\* changed report_date adds exactly one StormHistory row, and every column
\* of that row equals the column of the Storm row after the call.
C4_SnapshotEqualsStoredRow ==
  [][\A p \in Proc :
       (/\ CommitReturned(p)
        /\ Stored(storms, IdOf(p))
        /\ storms[RowOf(storms, IdOf(p))]["report_date"]
             # RecordOf(p)["report_date"]) =>
       /\ Len(storms') = Len(storms)
       /\ Len(history') = Len(history) + 1
       /\ \A c \in Cols :
            history'[Len(history')][c] = storms'[RowOf(storms, IdOf(p))][c]]_vars

\* C5 (as claimed): when a run has completed, a Storm row is active
\* exactly if its identifier was observed in a feed the run processed.
C5_ActiveIffObserved ==
  \A p \in Proc : pc[p] = "done" =>
    \A i \in 1..Len(storms) :
      (storms[i]["status"] = Some("active"))
        <=> (\E s \in observed[p] : storms[i]["storm_id"] = Some(s))

\* C5 (amended): when a run has completed, a Storm row is active exactly if
\* a reconcile of its identifier committed in that run; a row that was not
\* observed, or whose every reconcile of the run failed to commit, is
\* inactive.
C5_ActiveIffReconciled ==
  \A p \in Proc : pc[p] = "done" =>
    /\ committed[p] \subseteq observed[p]
    /\ \A i \in 1..Len(storms) :
         (storms[i]["status"] = Some("active"))
           <=> (\E s \in committed[p] : storms[i]["storm_id"] = Some(s))

\* C5 witness: a completed run that left one storm active, one storm
\* inactive that it did not observe.
C5_Witness ==
  /\ pc[1] = "done"
  /\ Len(storms) = 2
  /\ storms[1]["status"] = Some("inactive")
  /\ storms[2]["status"] = Some("active")
  /\ observed[1] = {storms[2]["storm_id"][1]}

\* C6: the step in which the primary fetch of a region returns no document
\* changes no Storm and no StormHistory row, stages nothing, and leaves the
\* run at the next region; a run ends as completed only after every active
\* region was taken.
C6_FailedFetchSkipsRegion ==
  /\ [][\A p \in Proc : (pc[p] = "region" /\ ev'[p] = "no_document") =>
          /\ storms' = storms
          /\ history' = history
          /\ sess'[p] = NoPending
          /\ pc'[p] = "region"
          /\ active_regions'[p] = active_regions[p]
          /\ regionIdx'[p] = regionIdx[p] + 1]_vars
  /\ [](\A p \in Proc : pc[p] = "done" =>
          /\ active_regions[p] = ActiveIds(regions)
          /\ active_regions[p] # <<>> => regionIdx[p] = Len(active_regions[p]) + 1)

\* C6 witness: the fetch of the first of two active regions failed and the
\* run stands at the second region.
C6_Witness ==
  /\ pc[1] = "region"
  /\ ev[1] = "no_document"
  /\ Len(active_regions[1]) = 2
  /\ regionIdx[1] = 2

\* C7: a step of the primary item loop in which an error is raised
\* (extraction, reconcile or wallet cascade) changes no Storm and no
\* StormHistory row and leaves the run at the next item of the same feed;
\* the item loop is left only when every item of the feed was taken.
C7_ItemErrorIsolated ==
  /\ [][\A p \in Proc : (pc[p] \in ItemPcs /\ ev'[p] = "error") =>
          /\ storms' = storms
          /\ history' = history
          /\ pc'[p] = "item"
          /\ nItems'[p] = nItems[p]
          /\ regionIdx'[p] = regionIdx[p]
          /\ itemIdx'[p] = itemIdx[p] + 1]_vars
  /\ [][\A p \in Proc :
          (pc[p] \in ItemPcs /\ pc'[p] \notin ItemPcs \cup {"crashed"}) =>
          itemIdx[p] = nItems[p] + 1]_vars

\* C7 witness: in a feed of two items the first committed a storm and the
\* second raised; the storm is still stored.
C7_Witness ==
  /\ pc[1] = "item"
  /\ ev[1] = "error"
  /\ nItems[1] = 2
  /\ itemIdx[1] = 3
  /\ runs = 1
  /\ committed[1] # {}
  /\ Len(storms) = 1
  /\ Len(history) = 1

\* C8: the step in which the commit of update_storm_data fails leaves the
\* Storm table and the StormHistory table as they were, leaves nothing
\* staged in the session (rollback), and raises to the caller.
C8_FailedCommitRollsBack ==
  [][\A p \in Proc : (pc[p] \in CommitPcs /\ pc'[p] \notin CommitPcs \cup {"crashed"}
                        /\ ev'[p] # "ok") =>
       /\ storms' = storms
       /\ history' = history
       /\ sess'[p] = NoPending
       /\ ev'[p] = "error"]_vars

\* C8 witness: the only reconcile so far failed to commit, and nothing is
\* stored.
C8_Witness ==
  /\ records = 1
  /\ runs = 1
  /\ pc[1] = "item"
  /\ ev[1] = "error"
  /\ observed[1] # {}
  /\ sess[1] = NoPending
  /\ storms = <<>>
  /\ history = <<>>

\* C9: in every committed state, also after a crash or a failed commit, a
\* storm identifier has a Storm row exactly if it has a StormHistory row.
C9_StormIffHistory ==
  \A sid \in StormIds : Stored(storms, sid) <=> Stored(history, sid)

\* C9 witness: a process crashed with a reconcile staged, after another
\* storm had been committed.
C9_Witness ==
  /\ pc[1] = "crashed"
  /\ records = 2
  /\ Len(storms) = 1
  /\ Len(history) = 1

\* C10: no two Storm rows carry the same storm identifier.
C10_OneRowPerStormId ==
  \A i, j \in 1..Len(storms) :
    storms[i]["storm_id"] = storms[j]["storm_id"] => i = j

\* C10 witness: a stored identifier was reconciled a second time with a new
\* report_date, and there is still one Storm row.
C10_Witness ==
  /\ records = 2
  /\ Len(storms) = 1
  /\ Len(history) = 2
  /\ history[1]["storm_id"] = history[2]["storm_id"]

\* C11: no step removes a Storm row or changes a stored identifier (the
\* reset, a reconcile, the wallet cascade, a rollback, a crash alike), and
\* when a run has completed every Storm row whose identifier the run did not
\* observe in a feed is still stored, with status inactive.
C11_StormRowsNeverRemoved ==
  /\ [][/\ Len(storms') >= Len(storms)
        /\ \A i \in 1..Len(storms) :
             storms'[i]["storm_id"] = storms[i]["storm_id"]]_vars
  /\ [](\A p \in Proc : pc[p] = "done" =>
          \A i \in 1..Len(storms) :
            (\A s \in observed[p] : storms[i]["storm_id"] # Some(s)) =>
              storms[i]["status"] = Some("inactive"))

\* C11 witness: a second run has completed without observing the storm the
\* first run stored; the storm is still there, inactive.
C11_Witness ==
  /\ runs = 2
  /\ pc[1] = "done"
  /\ observed[1] = {}
  /\ Len(storms) = 1
  /\ storms[1]["status"] = Some("inactive")

C13_RegionFixedWithinRun ==
  [][\A p \in Proc :
       (CommitReturned(p) /\ IdOf(p) \in committed[p]) =>
       storms'[RowOf(storms, IdOf(p))]["region_id"]
         = storms[RowOf(storms, IdOf(p))]["region_id"]]_vars

\* the part of a run that fetches feeds and reconciles records, and the
\* part of it spent in the wallet cascade of a primary item
Processing == Running \ {"reset"}
WalletPcs == {"wallet", "witem", "wcommit"}

\* C15: a run enters the part that fetches and reconciles only by the step
\* that commits its reset, which leaves every Storm row inactive; hence
\* while a run fetches or reconciles, every active Storm row is one that
\* this run reconciled after its reset.
C15_ResetCommittedFirst ==
  /\ [][\A p \in Proc : (pc'[p] \in Processing /\ pc[p] \notin Processing) =>
          /\ pc[p] = "reset"
          /\ storms' = MarkInactive(storms)
          /\ \A i \in 1..Len(storms') : storms'[i]["status"] = Some("inactive")
          /\ observed[p] = {} /\ committed[p] = {}]_vars
  /\ [](\A p \in Proc : pc[p] \in Processing =>
          \A i \in 1..Len(storms) :
            storms[i]["status"] = Some("active") =>
              \E s \in committed[p] : storms[i]["storm_id"] = Some(s))

\* C15 witness: in a second run, after the reset, one storm of the first
\* run is inactive and a storm reconciled by this run is active.
C15_Witness ==
  /\ runs = 2
  /\ pc[1] = "item"
  /\ Len(storms) = 2
  /\ storms[1]["status"] = Some("inactive")
  /\ storms[2]["status"] = Some("active")
  /\ committed[1] = {storms[2]["storm_id"][1]}

\* C16: within a run the region index advances by one, and only when no
\* item of the current feed is left or the fetch gave no document; the
\* primary item index advances by one; while the wallet cascade of a
\* primary item is under way neither index moves, the wallet items are
\* taken in order, and the cascade ends without an error only when every
\* wallet item was taken, or at once when the wallet fetch gave no document.
C16_SequentialProcessing ==
  [][\A p \in Proc : (pc[p] \in Running /\ pc'[p] # "crashed") =>
       /\ regionIdx'[p] # regionIdx[p] =>
            /\ regionIdx'[p] = regionIdx[p] + 1
            /\ \/ pc[p] \in {"reset", "region"}
               \/ pc[p] = "item" /\ itemIdx[p] = nItems[p] + 1
       /\ (pc[p] \in ItemPcs /\ itemIdx'[p] # itemIdx[p]) =>
            /\ itemIdx'[p] = itemIdx[p] + 1
            /\ itemIdx[p] <= nItems[p]
            /\ pc'[p] = "item"
       /\ (pc[p] \in WalletPcs /\ pc'[p] \in WalletPcs) =>
            /\ itemIdx'[p] = itemIdx[p]
            /\ wIdx'[p] \in {wIdx[p], wIdx[p] + 1} \/ pc[p] = "wallet"
       /\ (pc[p] \in WalletPcs /\ pc'[p] \notin WalletPcs) =>
            /\ pc'[p] = "item"
            /\ ev'[p] = "ok" => (pc[p] = "witem" /\ wIdx[p] = wItems[p] + 1)
            /\ ev'[p] = "no_document" => pc[p] = "wallet"]_vars

\* C16 witness: the first of two primary items was reconciled, its wallet
\* feed of one item was processed to its end, and the run stands at the
\* second primary item.
C16_Witness ==
  /\ pc[1] = "item"
  /\ ev[1] = "ok"
  /\ nItems[1] = 2
  /\ itemIdx[1] = 2
  /\ wItems[1] = 1
  /\ wIdx[1] = 2
  /\ Len(storms) = 2

\* C17: when the reconcile of a primary item returns, the wallet feed is
\* fetched exactly if the returned Storm row has a non-empty wallet_url;
\* the fetch is made once, right after that reconcile; every record of the
\* wallet feed is reconciled with the id of the region whose primary feed is
\* being processed.
C17_WalletCascade ==
  [][\A p \in Proc :
       /\ (pc[p] = "commit" /\ CommitReturned(p)) =>
            IF TruthyStr(storms'[RowOf(storms', IdOf(p))]["wallet_url"])
              THEN pc'[p] = "wallet" /\ itemIdx'[p] = itemIdx[p]
              ELSE pc'[p] = "item" /\ itemIdx'[p] = itemIdx[p] + 1
       /\ pc'[p] = "wallet" => pc[p] \in {"commit", "wallet"}
       /\ (pc[p] = "wallet" /\ pc'[p] = "item") => ev'[p] = "no_document"
       /\ (pc[p] = "witem" /\ pc'[p] = "wcommit") =>
            /\ sess'[p].region_id = CurRegion(p)
            /\ regionIdx'[p] = regionIdx[p]
       /\ (pc[p] = "wcommit" /\ CommitReturned(p)) =>
            storms'[RowOf(storms', IdOf(p))]["region_id"] = Some(CurRegion(p))]_vars

\* C17 witness: in region 2 a primary record with a wallet was reconciled
\* and a record of another storm from its wallet feed was reconciled too.
C17_Witness ==
  /\ pc[1] = "witem"
  /\ wIdx[1] = 2
  /\ Len(storms) = 2
  /\ TruthyStr(storms[1]["wallet_url"])
  /\ storms[1]["region_id"] = Some(2)
  /\ storms[2]["region_id"] = Some(2)
  /\ committed[1] = {storms[1]["storm_id"][1], storms[2]["storm_id"][1]}

(* ================== properties of the parser functions ================= *)
\* C14 (as claimed): fetch_rss_feed raises nothing, and it returns None
\* exactly when the transport failed, the status is not a success, or the
\* body could not be parsed.
C14_NoDocumentOnEveryFailure ==
  call.fn = "fetch_rss_feed" =>
    /\ call.res.exc = "none"
    /\ (call.res.val = None) <=>
         \/ call.arg.transport # "ok"
         \/ call.arg.status # "2xx"
         \/ call.arg.body = "fails"

\* the Cyclone element get_storm_data works on, by the order of lookups the
\* claims state, and the text of one of its children
FoundCyclone(item) ==
  IF item.cyclone_ns # None THEN item.cyclone_ns ELSE item.cyclone
ChildText(el, t) ==
  IF el.ns[t] # None THEN Strip(el.ns[t][1])
  ELSE IF el.bare[t] # None THEN Strip(el.bare[t][1])
  ELSE <<>>

\* C18: get_storm_data returns None, raising nothing, exactly when neither
\* the namespaced nor the bare lookup finds a storm element.  When one is
\* found (the namespaced one first), every field comes from the text of
\* the child the namespaced lookup finds, else of the child the bare lookup
\* finds, else from the empty string, and a record is returned unless the
\* bulletin time found makes the date parser raise an error parse_datetime
\* does not catch.
C18_LookupOrderAndDefaults ==
  call.fn = "get_storm_data" =>
    LET item == call.arg.item
        found == FoundCyclone(item)
    IN  /\ (call.res = Ret(None)) <=> (item.cyclone_ns = None /\ item.cyclone = None)
        /\ found # None =>
             LET el == found[1]
                 when == DateOf(ChildText(el, "datetime"), call.arg.now)
                 coords == parse_coordinates(ChildText(el, "center")).val
             IN  IF when.exc \notin {"none", "ValueError", "AttributeError"}
                   THEN call.res.exc = when.exc
                   ELSE /\ call.res.exc = "none"
                        /\ call.res.val # None
                        /\ LET rec == call.res.val[1]
                           IN  /\ rec["storm_id"] = Some(ChildText(el, "atcf"))
                               /\ rec["storm_name"] = Some(ChildText(el, "name"))
                               /\ rec["storm_type"] = Some(ChildText(el, "type"))
                               /\ rec["wallet"] = Some(ChildText(el, "wallet"))
                               /\ rec["movement"] = Some(ChildText(el, "movement"))
                               /\ rec["headline"] = Some(ChildText(el, "headline"))
                               /\ rec["latitude"] = coords[1]
                               /\ rec["longitude"] = coords[2]
                               /\ rec["pressure"] =
                                    Some(clean_numeric(ChildText(el, "pressure")))
                               /\ rec["wind_speed"] =
                                    Some(clean_numeric(ChildText(el, "wind")))
                               /\ rec["report_date"] =
                                    Some(IF when.exc = "none" THEN when.val
                                         ELSE utcnow(call.arg.now))

\* C18 witness: the storm element is found by the bare tag only; its atcf
\* child is found by the namespaced tag only, its wallet child by both, its
\* centre is missing; a record came back.
C18_Witness ==
  /\ call.fn = "get_storm_data"
  /\ call.arg.item.cyclone_ns = None
  /\ call.arg.item.cyclone # None
  /\ call.arg.item.cyclone[1].ns["atcf"] # None
  /\ call.arg.item.cyclone[1].bare["atcf"] = None
  /\ call.arg.item.cyclone[1].ns["wallet"] # None
  /\ call.arg.item.cyclone[1].bare["wallet"] # None
  /\ call.arg.item.cyclone[1].ns["center"] = None
  /\ call.arg.item.cyclone[1].bare["center"] = None
  /\ call.res.exc = "none"
  /\ call.res.val[1]["storm_id"] = Some(AL01)
  /\ call.res.val[1]["latitude"] = None

\* the item with the text of its wallet child, under either lookup, replaced
WithWallet(item, w) ==
  [item EXCEPT !.cyclone_ns =
                 IF @ = None THEN @
                 ELSE Some([@[1] EXCEPT !.ns["wallet"] = Some(w),
                                        !.bare["wallet"] = None]),
               !.cyclone =
                 IF @ = None THEN @
                 ELSE Some([@[1] EXCEPT !.ns["wallet"] = Some(w),
                                        !.bare["wallet"] = None])]

\* wallet identifiers that differ in letter case only, and another one
CaseVariants == {AT1, <<"a", "t", "1">>, <<"A", "t", "1">>}
OtherWallet == <<"E", "P", "1">>

\* C19: a record carries a wallet_url exactly if its wallet identifier is
\* not empty; the same item with a wallet identifier that differs in letter
\* case only gives the same wallet_url, and the wallet_url is that of the
\* lower-cased identifier.
C19_WalletUrlOfLowerCasedWallet ==
  (call.fn = "get_storm_data" /\ call.res.exc = "none" /\ call.res.val # None) =>
    LET rec == call.res.val[1]
        w == rec["wallet"][1]
    IN  /\ ("wallet_url" \in DOMAIN rec) <=> (w # <<>>)
        /\ w # <<>> =>
             /\ rec["wallet_url"] =
                  Some(<<"https://www.nhc.noaa.gov/nhc_">> \o Lower(w) \o <<".xml">>)
             /\ \A v \in CaseVariants \cup {OtherWallet} :
                  LET other == get_storm_data(WithWallet(call.arg.item, v),
                                              call.arg.now).val[1]
                  IN  (other["wallet_url"] = rec["wallet_url"])
                        <=> (Lower(v) = Lower(w))

\* C19 witness: a record whose wallet identifier is in upper case carries
\* the URL of the lower-cased identifier.
C19_Witness ==
  /\ call.fn = "get_storm_data"
  /\ call.res.exc = "none"
  /\ call.res.val # None
  /\ call.res.val[1]["wallet"] = Some(AT1)
  /\ "wallet_url" \in DOMAIN call.res.val[1]
  /\ call.res.val[1]["wallet_url"] =
       Some(<<"https://www.nhc.noaa.gov/nhc_", "a", "t", "1", ".xml">>)

\* a numeric token with at most one degree sign, before or after the
\* number: the number in it
TokenCore(t) ==
  LET u == Strip(t)
  IN  IF u # <<>> /\ u[Len(u)] = "deg" THEN SubSeq(u, 1, Len(u) - 1)
      ELSE IF u # <<>> /\ u[1] = "deg" THEN Tail(u)
      ELSE u
NumericToken(t) == float(TokenCore(t)).exc = "none"

\* C20 (as claimed): parse_coordinates raises nothing; for two numeric
\* tokens, each optionally with a degree sign, separated by one comma it
\* returns their two values, and for every other text it returns
\* (None, None).
C20_CoordinatesOrNothing ==
  call.fn = "parse_coordinates" =>
    LET parts == Split(call.arg, ",")
    IN  /\ call.res.exc = "none"
        /\ IF Len(parts) = 2 /\ NumericToken(parts[1]) /\ NumericToken(parts[2])
             THEN call.res.val = <<Some(float(TokenCore(parts[1])).val),
                                   Some(float(TokenCore(parts[2])).val)>>
             ELSE call.res.val = <<None, None>>

\* the number the digit characters of a text write, read from the left, and
\* str(n) of a non-negative integer
RECURSIVE DigitsValue(_, _)
DigitsValue(s, acc) ==
  IF s = <<>> THEN acc
  ELSE IF s[1] \in Digits THEN DigitsValue(Tail(s), 10 * acc + DigitVal(s[1]))
  ELSE DigitsValue(Tail(s), acc)

DigitChar(d) == CHOOSE c \in Digits : DigitVal(c) = d

RECURSIVE DecimalText(_)
DecimalText(n) ==
  IF n < 10 THEN <<DigitChar(n)>>
  ELSE DecimalText(n \div 10) \o <<DigitChar(n % 10)>>

C22_NeverRaisesFallsBackToNow ==
  call.fn = "parse_datetime" =>
    /\ call.res.exc = "none"
    /\ DateOf(call.arg.dt_str, call.arg.now).exc # "none" =>
         call.res.val = utcnow(call.arg.now)

\* what a bulletin time text says: a year, and the offset of its zone (the
\* host's when it names none that is known)
HasYear(dt_str) == \E i \in 1..Len(dt_str) : dt_str[i] \in YearWords
StatedDay(dt_str, now) ==
  IF \E i \in 1..Len(dt_str) : dt_str[i] \in Days
    THEN (CHOOSE d \in Days : Contains(dt_str, d))
    ELSE LocalNow(now).day
StatedOffset(dt_str, now) ==
  IF Contains(dt_str, "UTC") THEN 0
  ELSE IF Contains(dt_str, "-0500") THEN -1
  ELSE IF Contains(dt_str, "+0500") THEN 1
  ELSE now.host

\* C23 (as claimed): a text that parses and names no year gives a value in
\* the current UTC year; every value returned is naive (no tzinfo) and is
\* the UTC time of what the text states.
C23_CurrentUtcYearNaiveUtc ==
  (call.fn = "parse_datetime" /\ call.res.exc = "none") =>
    LET dt_str == call.arg.dt_str
        now == call.arg.now
        parses == DateOf(dt_str, now).exc = "none"
    IN  /\ call.res.val.tzinfo = None
        /\ (parses /\ ~HasYear(dt_str)) =>
             call.res.val.year = utcnow(now).year
        /\ parses =>
             call.res.val.day =
               Shift([year |-> 2025, day |-> StatedDay(dt_str, now),
                      tzinfo |-> None], -StatedOffset(dt_str, now)).day

(* ================= further properties of the pipeline ================== *)
\* C24 (as claimed): a step of the wallet item loop in which an error is
\* raised (extraction or reconcile of wallet item j) leaves the run in the
\* same wallet feed at item j + 1, so that the items after j are still
\* taken.
C24_WalletItemErrorIsolated ==
  [][\A p \in Proc :
       (pc[p] \in {"witem", "wcommit"} /\ ev'[p] = "error"
          /\ wIdx[p] < wItems[p]) =>
         /\ pc'[p] = "witem"
         /\ wItems'[p] = wItems[p]
         /\ wIdx'[p] = wIdx[p] + 1
         /\ itemIdx'[p] = itemIdx[p]]_vars

\* C25: the step in which the commit of a reconcile fails and is rolled
\* back leaves every Storm row and every StormHistory row of the other
\* storms this run has committed as it was.
C25_FailedCommitKeepsSiblings ==
  [][\A p \in Proc :
       (pc[p] \in CommitPcs /\ pc'[p] \notin CommitPcs \cup {"crashed"}
          /\ ev'[p] = "error") =>
         /\ \A i \in 1..Len(storms) :
              storms[i]["storm_id"][1] \in committed[p] \ {IdOf(p)} =>
                i <= Len(storms') /\ storms'[i] = storms[i]
         /\ \A i \in 1..Len(history) :
              history[i]["storm_id"][1] \in committed[p] \ {IdOf(p)} =>
                i <= Len(history') /\ history'[i] = history[i]]_vars

\* C25 witness: the first record of the run committed a storm, the commit
\* for the second record, of another storm, failed; the first storm is
\* stored and active with its history row.
C25_Witness ==
  /\ runs = 1
  /\ records = 2
  /\ pc[1] = "item"
  /\ ev[1] = "error"
  /\ Cardinality(committed[1]) = 1
  /\ Cardinality(observed[1]) = 2
  /\ Len(storms) = 1
  /\ storms[1]["storm_id"][1] \in committed[1]
  /\ storms[1]["status"] = Some("active")
  /\ Len(history) = 1

\* C26 (as claimed): the Storm write of a reconcile is committed before its
\* StormHistory row is inserted: whenever a session holds a StormHistory
\* insert, the Storm write of that reconcile is no longer pending in it, and
\* no step changes both tables.
C26_HistoryAfterStormCommit ==
  /\ [][\A p \in Proc :
          sess'[p].hist # <<>> =>
            /\ sess'[p].kind = "none"
            /\ Stored(storms', sess'[p].sd["storm_id"][1])]_vars
  /\ [][history' # history => storms' = storms]_vars

C28_NoWalletDocumentKeepsPrimary ==
  [][\A p \in Proc : (pc[p] = "wallet" /\ pc'[p] \notin {"wallet", "witem", "crashed"}) =>
       /\ ev'[p] = "no_document"
       /\ storms' = storms
       /\ history' = history
       /\ \A sid \in committed[p] : Stored(storms', sid) /\ Stored(history', sid)
       /\ committed'[p] = committed[p]
       /\ pc'[p] = "item"
       /\ itemIdx'[p] = itemIdx[p] + 1]_vars

\* C28 witness: the first primary item stored a storm with a wallet_url, the
\* fetch of its wallet feed gave no document, and the run stands at the
\* second primary item with the storm stored and active.
C28_Witness ==
  /\ runs = 1
  /\ pc[1] = "item"
  /\ ev[1] = "no_document"
  /\ nItems[1] = 2
  /\ itemIdx[1] = 2
  /\ Len(storms) = 1
  /\ TruthyStr(storms[1]["wallet_url"])
  /\ storms[1]["status"] = Some("active")
  /\ storms[1]["storm_id"][1] \in committed[1]
  /\ Len(history) = 1

\* C29 (as claimed): a committed reconcile of a record that carries no
\* season, for a storm that is already stored, leaves the season of the Storm
\* row as it was, in whatever year the reconcile happens.
C29_SeasonFixedAtCreation ==
  [][\A p \in Proc :
       (CommitReturned(p) /\ Stored(storms, IdOf(p))
          /\ "season" \notin DOMAIN RecordOf(p)) =>
         storms'[RowOf(storms', IdOf(p))]["season"] =
           storms[RowOf(storms, IdOf(p))]["season"]]_vars

\* C30 (as claimed): after a committed reconcile the Storm row has a
\* wallet_url exactly if its wallet identifier is not empty, and the
\* wallet_url is the one derived from that identifier; so no wallet feed is
\* cascaded for a row whose wallet identifier is empty.
C30_WalletUrlMatchesWallet ==
  [][\A p \in Proc : CommitReturned(p) =>
       LET row == storms'[RowOf(storms', IdOf(p))]
       IN  /\ TruthyStr(row["wallet_url"]) <=> TruthyStr(row["wallet"])
           /\ TruthyStr(row["wallet"]) =>
                row["wallet_url"] =
                  Some(<<"https://www.nhc.noaa.gov/nhc_">>
                         \o Lower(row["wallet"][1]) \o <<".xml">>)
           /\ pc'[p] = "wallet" => TruthyStr(row["wallet"])]_vars

\* the StormHistory rows of a storm, by their place in insert order
HistoryRowsOf(sid) == {i \in 1..Len(history) : history[i]["storm_id"] = Some(sid)}

\* C33: with one process, the latest StormHistory row of every stored storm
\* carries the report_date of its Storm row, and two StormHistory rows of a
\* storm with no row of that storm between them differ in report_date.
C33_HistoryFollowsReportDate ==
  \A sid \in StormIds :
    /\ (Stored(storms, sid) /\ HistoryRowsOf(sid) # {}) =>
         LET last == CHOOSE i \in HistoryRowsOf(sid) :
                       \A j \in HistoryRowsOf(sid) : j <= i
         IN  history[last]["report_date"]
               = storms[RowOf(storms, sid)]["report_date"]
    /\ \A i, j \in HistoryRowsOf(sid) :
         (i < j /\ \A k \in HistoryRowsOf(sid) : ~(i < k /\ k < j)) =>
           history[i]["report_date"] # history[j]["report_date"]

\* C33 witness: a stored storm was reconciled again with another bulletin
\* time, and the run completed: two history rows of the storm.
C33_Witness ==
  /\ Len(storms) = 1
  /\ Len(history) = 2
  /\ history[1]["storm_id"] = history[2]["storm_id"]
  /\ history[1]["report_date"] # history[2]["report_date"]
  /\ storms[1]["report_date"] = history[2]["report_date"]
  /\ pc[1] = "done"

\* C34: no reconcile is ever staged, and no row is ever stored, for a record
\* without a storm identifier; the step that takes such a record from a
\* feed changes no table and stages nothing, and in the primary item loop it
\* leaves the run at the next item of the same feed, without a wallet fetch.
C34_EmptyIdentifierSkipped ==
  /\ [](\A p \in Proc : sess[p] # NoPending => TruthyStr(sess[p].sd["storm_id"]))
  /\ [](/\ \A i \in 1..Len(storms) : TruthyStr(storms[i]["storm_id"])
        /\ \A i \in 1..Len(history) : TruthyStr(history[i]["storm_id"]))
  /\ [][\A p \in Proc : (PrimaryItemNoId(p) \/ WalletItemNoId(p)) =>
          /\ storms' = storms
          /\ history' = history
          /\ sess' = sess
          /\ records' = records]_vars
  /\ [][\A p \in Proc : PrimaryItemNoId(p) =>
          /\ pc'[p] = "item"
          /\ itemIdx'[p] = itemIdx[p] + 1
          /\ nItems'[p] = nItems[p]
          /\ regionIdx'[p] = regionIdx[p]]_vars

\* C34 witness: the first item of a feed of two was passed over with the
\* error logged while nothing had been handed to a lookup, nothing is
\* stored or staged, and the run stands at the second item of the feed.
C34_Witness ==
  /\ runs = 1
  /\ pc[1] = "item"
  /\ ev[1] = "error"
  /\ nItems[1] = 2
  /\ itemIdx[1] = 2
  /\ records = 0
  /\ observed[1] = {}
  /\ sess[1] = NoPending
  /\ storms = <<>>
  /\ history = <<>>

(* ================= overlapping runs and the scheduler ================== *)
\* the processes whose main() is not under way
Resting == {"idle", "done", "failed", "crashed"}

\* C31: nothing a run holds keeps another invocation out: a process that is
\* not in a run can enter main() whatever the other process is doing, and
\* while one process is between the lookup and the commit of a reconcile
\* the reset of the other process and a commit of the other process that the
\* storage accepts can be taken.
C31_NoLockOrRunToken ==
  /\ \A q \in 1..nprocs :
       (pc[q] \in Resting /\ runs < MaxRuns) => ENABLED StartRun(q)
  /\ \A p, q \in 1..nprocs :
       (p # q /\ pc[p] \in CommitPcs) =>
         /\ pc[q] = "reset" => ENABLED ResetCommit(q)
         /\ (pc[q] = "commit" /\ UniqueOk(storms, sess[q]))
              => ENABLED PrimaryCommit(q)

\* C31 witness: process 1 is between the lookup and the commit of a
\* reconcile that found its storm not stored, and since that lookup process
\* 2 has committed a reconcile of the same storm: what process 1 holds is
\* no longer what a lookup gives.
C31_Witness ==
  /\ nprocs = 2
  /\ pc[1] = "commit"
  /\ sess[1].kind = "insert"
  /\ pc[2] \in Processing
  /\ IdOf(1) \in committed[2]
  /\ StageReconcile(storms, sess[1].sd, sess[1].region_id, year) # sess[1]

\* the Storm rows of a storm identifier
StormRowsOf(sid) == {i \in 1..Len(storms) : storms[i]["storm_id"] = Some(sid)}

\* a process holds the insert of a storm that was stored since its lookup
StaleInsert(p) ==
  /\ pc[p] \in CommitPcs
  /\ sess[p].kind = "insert"
  /\ Stored(storms, IdOf(p))

\* C37: with two processes on one storage no storm identifier has more than
\* one Storm row; a process that holds the insert of a storm which the other
\* process has stored since cannot commit it: its next step leaves both
\* tables as they are, with the one Storm row of that storm, drops what the
\* session held and ends in an error (or the process dies).
C37_SecondCreateRolledBack ==
  /\ [](\A sid \in StormIds : Cardinality(StormRowsOf(sid)) <= 1)
  /\ [](\A p \in Proc : StaleInsert(p) =>
          (~ENABLED PrimaryCommit(p) /\ ~ENABLED WalletCommit(p)))
  /\ [][\A p \in Proc : (StaleInsert(p) /\ pc'[p] # pc[p]) =>
          /\ storms' = storms
          /\ history' = history
          /\ Cardinality(StormRowsOf(IdOf(p))) = 1
          /\ sess'[p] = NoPending
          /\ pc'[p] = "crashed" \/ ev'[p] = "error"]_vars

\* C37 witness: both processes read a record of the storm that was not
\* stored; process 2 committed it, the commit of process 1 ended in an error:
\* one Storm row and one StormHistory row of that storm.
C37_Witness ==
  /\ nprocs = 2
  /\ pc[1] = "item"
  /\ ev[1] = "error"
  /\ sess[1] = NoPending
  /\ observed[1] = {AL02}
  /\ committed[1] = {}
  /\ committed[2] = {AL02}
  /\ Cardinality(StormRowsOf(AL02)) = 1
  /\ Cardinality(HistoryRowsOf(AL02)) = 1

\* C38 (as claimed): with two processes on one storage, two StormHistory
\* rows of a storm with no row of that storm between them differ in
\* report_date: no change of report_date is recorded twice.
C38_OneHistoryRowPerChange ==
  \A sid \in StormIds :
    \A i, j \in HistoryRowsOf(sid) :
      (i < j /\ \A k \in HistoryRowsOf(sid) : ~(i < k /\ k < j)) =>
        history[i]["report_date"] # history[j]["report_date"]

\* the latest StormHistory row of a storm that has one
LastHistoryOf(sid) ==
  CHOOSE i \in HistoryRowsOf(sid) : \A j \in HistoryRowsOf(sid) : j <= i

\* what the session of a process holds is what a lookup at this moment
\* would make it hold: nothing was committed to its storm since its lookup
FreshlyStaged(p) ==
  sess[p] = StageReconcile(storms, sess[p].sd, sess[p].region_id, year)

\* C38 (amended): a reconcile that commits with nothing committed to its
\* storm since its lookup adds a StormHistory row only with a report_date
\* other than that of the storm's latest row; and with two processes no
\* three StormHistory rows of a storm that follow one another carry the
\* same report_date (one row per run for one change).
C38_OneHistoryRowPerChangePerRun ==
  /\ [][\A p \in Proc :
          (/\ CommitReturned(p)
           /\ FreshlyStaged(p)
           /\ Len(history') > Len(history)
           /\ HistoryRowsOf(IdOf(p)) # {}) =>
            history'[Len(history')]["report_date"]
              # history[LastHistoryOf(IdOf(p))]["report_date"]]_vars
  /\ [](\A sid \in StormIds :
          \A i, j, k \in HistoryRowsOf(sid) :
            (i < j /\ j < k /\ \A m \in HistoryRowsOf(sid) :
                                 (i < m /\ m < k) => m = j) =>
              ~(/\ history[i]["report_date"] = history[j]["report_date"]
                /\ history[j]["report_date"] = history[k]["report_date"]))

\* C38 witness: both processes looked up the stored storm with a record of
\* a new report_date before either committed, and both committed: the two
\* latest StormHistory rows of the storm carry that report_date.
C38_Witness ==
  /\ nprocs = 2
  /\ committed[1] = {AL01}
  /\ committed[2] = {AL01}
  /\ records = 2
  /\ Len(storms) = 1
  /\ Len(history) = 3
  /\ history[1]["report_date"] # history[2]["report_date"]
  /\ history[2]["report_date"] = history[3]["report_date"]
  /\ storms[1]["report_date"] = history[3]["report_date"]

\* C32: the scheduler calls the entry point once for each run time it
\* computes; when the run it waits for has raised, its next statement logs
\* the error and goes on with the loop; and after a failed run a next run
\* is started, as long as the bound on the runs allows one.
C32_SchedulerSurvivesFailedRun ==
  /\ [](sched.ticks = runs + (IF sched.pc = "sleep" THEN 1 ELSE 0))
  /\ [][(sched.pc = "run" /\ pc[1] = "failed" /\ sched' # sched) =>
          (sched'.log = "error" /\ sched'.pc = "next")]_vars
  /\ \A k \in 1..(MaxRuns - 1) :
       (sched.pc = "run" /\ pc[1] = "failed" /\ runs = k)
         ~> (runs = k + 1 /\ pc[1] = "reset" /\ sched.log = "error")

\* C32 witness: the first run raised, the error was logged, and the second
\* run has been started for the second run time computed.
C32_Witness ==
  /\ runs = 2
  /\ sched.ticks = 2
  /\ sched.pc = "run"
  /\ sched.log = "error"
  /\ pc[1] = "reset"

\* C35: no step that takes or reconciles an item of a wallet feed leads to
\* a wallet fetch; a run called by the scheduler has made at most as many
\* fetches as it has active regions and has found primary items; and every
\* run that is under way comes to an end.
C35_CascadeOneLevelDeep ==
  /\ [][\A p \in Proc : pc[p] \in {"witem", "wcommit"} => pc'[p] # "wallet"]_vars
  /\ [](pc[1] \in Running \cup {"done"} =>
         sched.fetches <= Len(active_regions[1]) + sched.items)
  /\ pc[1] \in Running ~> pc[1] \notin Running

\* C35 witness: a run over a region whose feed held two items has
\* completed after three fetches: each primary item had a wallet feed.
C35_Witness ==
  /\ pc[1] = "done"
  /\ Len(active_regions[1]) = 1
  /\ sched.items = 2
  /\ sched.fetches = 3

\* C36: with no region flagged active, the step in which the reset of a run
\* commits sets every Storm row to inactive, changes nothing else of a Storm
\* row and no StormHistory row, makes no fetch and ends the run; while such
\* a run stands completed every Storm row is inactive and the run has made
\* no fetch.
C36_NoActiveRegionResetOnly ==
  /\ [][\A p \in Proc :
          (/\ pc[p] = "reset"
           /\ ActiveIds(regions) = <<>>
           /\ pc'[p] \notin {"reset", "failed", "crashed"}) =>
            /\ storms' = MarkInactive(storms)
            /\ history' = history
            /\ pc'[p] = "done"
            /\ sched'.fetches = 0
            /\ records' = records]_vars
  /\ [](\A p \in Proc : (pc[p] = "done" /\ active_regions[p] = <<>>) =>
          /\ \A i \in 1..Len(storms) : storms[i]["status"] = Some("inactive")
          /\ sched.fetches = 0
          /\ observed[p] = {})

\* C36 witness: the storage holds a storm that was active, no region is
\* flagged active, and the run has completed: the storm is inactive, its
\* history row is as it was, nothing was fetched.
C36_Witness ==
  /\ runs = 1
  /\ pc[1] = "done"
  /\ ActiveIds(regions) = <<>>
  /\ Len(storms) = 1
  /\ storms[1]["status"] = Some("inactive")
  /\ history = SeedPending.hist
  /\ history[1]["status"] = Some("active")
  /\ sched.fetches = 0

\* C39: under the scheduler no two runs are under way at a time, and a run
\* is started only while the loop is at its call, no run is under way, and
\* the run before it, if any, has returned or raised.
C39_SchedulerRunsNeverOverlap ==
  /\ [](\A p, q \in Proc : (pc[p] \in Running /\ pc[q] \in Running) => p = q)
  /\ [][\A p \in Proc : (pc'[p] = "reset" /\ pc[p] # "reset") =>
          /\ sched.pc = "sleep"
          /\ \A o \in Proc : pc[o] \notin Running
          /\ runs > 0 => \E o \in Proc : pc[o] \in {"done", "failed"}]_vars

\* C39 witness: the second run has been started after the first one
\* returned.
C39_Witness ==
  /\ runs = 2
  /\ sched.pc = "run"
  /\ sched.log = "completed"
  /\ pc[1] = "reset"
  /\ Len(storms) > 0


====
